---------------------------- MODULE Spec2Model ----------------------------
(***************************************************************************)
(* Model of the retrieval data-format adaptation layer of gprof_nn:        *)
(* spatial padding (calculate_padding_dimensions), the batch loaders of    *)
(* gprof_nn.retrieval, the feature encoders, the batch loop of            *)
(* RetrievalDriver._run, the choice of output format and file, the        *)
(* GPROF0DDataset of gprof_nn.data.training_data and the runner of the    *)
(* legacy algorithm (gprof_nn.legacy).                                     *)
(*                                                                         *)
(* Arrays are 0-based in the source.  Sequences of this module are         *)
(* 1-based; the VALUES they hold (sample, scan and pixel indices, slots)   *)
(* are the 0-based indices of the source.                                  *)
(***************************************************************************)
EXTENDS Integers, Sequences, FiniteSets, TLC

VARIABLES
    \* ---- calculate_padding_dimensions applied to a tensor shape
    t_shape,      \* <<m, n>>: shape[-2] and shape[-1] of the tensor
    t_padding,    \* the tuple returned, << >> before the call
    \* ---- 2D (grid) loaders
    g_loader,     \* class of the loader
    g_scans,      \* number of scans of the scene (shape[-2] of the input tensor)
    g_pixels,     \* number of pixels of the scene (shape[-1] of the input tensor)
    g_padding,    \* self.padding
    g_phase,      \* position of RetrievalDriver._run; "raised" when
                  \* finalize raised
    g_x,          \* batch returned by __getitem__: [scans, pixels] axis maps
    g_out,        \* result of finalize: [scans, pixels] axis maps
    \* ---- 0D (point) loaders driven by RetrievalDriver._run
    l_class,      \* class of the loader
    l_kind,       \* NetcdfLoader0D.kind ("standard" / "bin")
    l_dims,       \* extents of the input file: <<samples>>, <<samples, scans,
                  \* pixels>> or <<scans, pixels>>
    l_batch_size, \* batch_size given to the constructor
    l_invalid,    \* observations whose channels are all invalid
    l_retrieved,  \* the targets the result of the model holds
    l_i,          \* loop index of RetrievalDriver._run
    l_batches,    \* the batches __getitem__ returned, in order
    l_means,      \* predictions appended so far (concatenated)
    l_phase,      \* position of RetrievalDriver._run
    l_result,     \* what finalize returned (or raised)
    l_probe,      \* outcome of a __getitem__ call made by the caller
    \* ---- feature encoders, one observation
    e_encoder,    \* the encoding function
    e_in,         \* the raw record: bt of channel chan, surface and airmass code
    e_phase,      \* "input" / "encoded"
    e_x,          \* the features the encoder returned
    e_saved,      \* the codes GPROF0DDataset.save stores, << >> before
    \* ---- SimulatorLoader driven by RetrievalDriver._run
    s_source,     \* the "source" flag of every sample of the file
    s_scans,      \* number of scans of a scene
    s_pixels,     \* number of pixels of a scene
    s_batch_size, \* batch_size given to the constructor
    s_i,          \* loop index of RetrievalDriver._run
    s_means,      \* predictions appended so far (concatenated)
    s_phase,      \* position of RetrievalDriver._run
    s_result,     \* what finalize returned (or raised)
    \* ---- RetrievalDriver: __init__ and run
    d_suffix,     \* input_file.suffix, a tuple of characters
    d_output_arg, \* the output_file argument: "None", "dir" or "file"
    d_formats,    \* input_format, output_format, output_suffix of __init__
    d_adapter,    \* <<class, kind>> of input_data, << >> before construction
    d_len,        \* len(input_data)
    d_pc,         \* position of run
    d_tmp,        \* the temporary file: "none", "exists", "deleted"
    d_status,     \* exit status of the preprocessor, -1 before it has run
    d_i,          \* loop index of _run
    d_calls,      \* the calls made so far, in order: <<name, batch index>>
    d_log,        \* number of warnings logged
    d_file,       \* the output file, << >> while there is none
    d_return,     \* what run returned, NoValue before
    \* ---- RetrievalGradientDriver._run
    q_targets,    \* the keys of y_pred, in order
    q_len,        \* len(input_data)
    q_i,          \* index of the batch loop
    q_j,          \* position of the loop "for k in y_pred"
    q_xgrad,      \* x.grad of the current batch: the set of <<batch, target>>
                  \* whose sensitivities have been added into it
    q_pgrad,      \* the same for the .grad of the model's parameters
    q_grads,      \* the keys k of grads; grads[k] is the tensor x.grad
    q_gradients,  \* the entries appended to gradients
    q_phase,      \* position of _run
    \* ---- GPROF0DDataset iterated with __getitem__
    ds_n,         \* number of samples of the file
    ds_batch_size,\* batch_size
    ds_shuffle,   \* the shuffle argument of the constructor
    ds_shuffled,  \* self._shuffled
    ds_x,         \* the samples of x and y in their current order, each
                  \* named by its (0-based) index in the file
    ds_i,         \* index of the next __getitem__ call of the iteration
    ds_batches,   \* the batches delivered in the current pass
    ds_epoch,     \* number of the pass over the dataset
    ds_phase,     \* "iterating", or "done" after IndexError
    \* ---- the legacy GPROF runner (gprof_nn.legacy)
    lg_fn,        \* the function called
    lg_sensor,    \* class of the sensor
    lg_mode,      \* the mode argument, a tuple of characters
    lg_robust,    \* robust argument of a direct execute_gprof call
    lg_suffix,    \* suffix of the input file of run_gprof_standard
    lg_pp_status, \* exit status of the preprocessor
    lg_exits,     \* exit status of the GPROF executable, one per batch
    lg_haslog,    \* whether a failing executable has written its log file
    lg_i,         \* number of batches taken from the dataset
    lg_results,   \* results: the (0-based) batches whose output was kept
    lg_files,     \* files written in the working directory
    lg_started,   \* executables started, in order
    lg_logged,    \* number of LOGGER.error calls
    lg_raised,    \* exception that left the function, "" if none
    lg_return,    \* value returned
    lg_pc,        \* position in the function
    \* ---- the adapters: normalization, length and feature layout
    a_class,      \* class of the adapter
    a_sensor,     \* class of the sensor of the input file
    a_n_chans,    \* sensor.n_chans
    a_samples,    \* number of scenes (samples) of the input file
    a_batch_size, \* batch_size the adapter was constructed with
    a_norm,       \* how often the normalizer was applied to self.input_data
    a_len,        \* len(adapter), -1 before the call
    a_x,          \* the batch returned by adapter[0]
    a_phase,      \* "new", "loaded" after __init__, "batch" after adapter[0]
    \* ---- RetrievalDriver: output format and output file
    o_name,       \* name of the input file, a tuple of characters
    o_output_arg, \* the output_file argument: "None", "dir" or "file"
    o_output_name,\* name of the output_file argument when it is a file
    o_formats,    \* formats and output suffix chosen by __init__
    o_file,       \* name of self.output_file
    o_writer,     \* what run wrote the results with
    o_phase       \* "new", "constructed", "written"

padVars  == <<t_shape, t_padding>>
gridVars == <<g_loader, g_scans, g_pixels, g_padding, g_phase, g_x, g_out>>
ldVars   == <<l_class, l_kind, l_dims, l_batch_size, l_invalid, l_retrieved,
              l_i, l_batches, l_means, l_phase, l_result, l_probe>>
encVars  == <<e_encoder, e_in, e_phase, e_x, e_saved>>
simVars  == <<s_source, s_scans, s_pixels, s_batch_size, s_i, s_means,
              s_phase, s_result>>
drvVars  == <<d_suffix, d_output_arg, d_formats, d_adapter, d_len, d_pc,
              d_tmp, d_status, d_i, d_calls, d_log, d_file, d_return>>
gradVars == <<q_targets, q_len, q_i, q_j, q_xgrad, q_pgrad, q_grads,
              q_gradients, q_phase>>
dsVars   == <<ds_n, ds_batch_size, ds_shuffle, ds_shuffled, ds_x, ds_i,
              ds_batches, ds_epoch, ds_phase>>
lgVars   == <<lg_fn, lg_sensor, lg_mode, lg_robust, lg_suffix, lg_pp_status,
              lg_exits, lg_haslog, lg_i, lg_results, lg_files, lg_started,
              lg_logged, lg_raised, lg_return, lg_pc>>
adVars   == <<a_class, a_sensor, a_n_chans, a_samples, a_batch_size, a_norm,
              a_len, a_x, a_phase>>
outVars  == <<o_name, o_output_arg, o_output_name, o_formats, o_file,
              o_writer, o_phase>>
vars     == <<padVars, gridVars, ldVars, encVars, simVars, drvVars, gradVars,
              dsVars, lgVars, adVars, outVars>>
\* The variables a specification leaves alone.
notPad   == <<gridVars, ldVars, encVars, simVars, drvVars, gradVars,
              dsVars, lgVars, adVars, outVars>>
notGrid  == <<padVars, ldVars, encVars, simVars, drvVars, gradVars,
              dsVars, lgVars, adVars, outVars>>
notLd    == <<padVars, gridVars, encVars, simVars, drvVars, gradVars,
              dsVars, lgVars, adVars, outVars>>
notEnc   == <<padVars, gridVars, ldVars, simVars, drvVars, gradVars,
              dsVars, lgVars, adVars, outVars>>
notSim   == <<padVars, gridVars, ldVars, encVars, drvVars, gradVars,
              dsVars, lgVars, adVars, outVars>>
notDrv   == <<padVars, gridVars, ldVars, encVars, simVars, gradVars,
              dsVars, lgVars, adVars, outVars>>
notGrad  == <<padVars, gridVars, ldVars, encVars, simVars, drvVars,
              dsVars, lgVars, adVars, outVars>>
notDs    == <<padVars, gridVars, ldVars, encVars, simVars, drvVars,
              gradVars, lgVars, adVars, outVars>>
notLg    == <<padVars, gridVars, ldVars, encVars, simVars, drvVars, gradVars,
              dsVars, adVars, outVars>>
notAd    == <<padVars, gridVars, ldVars, encVars, simVars, drvVars, gradVars,
              dsVars, lgVars, outVars>>
notOut   == <<padVars, gridVars, ldVars, encVars, simVars, drvVars, gradVars,
              dsVars, lgVars, adVars>>

NoValue == "none"

\* ------------------------------------------------------------------ bounds
\* Largest tensor dimension handed to calculate_padding_dimensions.
MaxShape == 224
\* Largest number of scans / pixels of a scene of a 2D loader.
MaxDim == 33
\* Largest number of samples of a flat ("bin") NetCDF file.
MaxSamples == 10
\* Largest batch_size.
MaxBatch == 5
\* Largest number of scenes, scans and pixels of a swath-shaped input file.
MaxScenes == 2
MaxScans == 3
MaxPixels == 3
\* Surface-type codes 0..MaxSurfaceCode and airmass codes
\* -MaxNegAirmass..MaxAirmassCode occur in the input.
MaxSurfaceCode == 19
MaxAirmassCode == 4
MaxNegAirmass == 2
\* Brightness temperatures within BtMargin of 0 and of 500 occur in the input.
BtMargin == 2
\* Largest number of samples, largest scene extent and largest batch_size of
\* a file given to SimulatorLoader.
MaxSimSamples == 4
MaxSimDim == 3
MaxSimBatch == 3
\* Largest number of batches of an adapter driven by RetrievalDriver.run.
MaxDriverBatches == 2
\* Largest number of targets of the model and of batches given to
\* RetrievalGradientDriver._run.
MaxGradTargets == 3
MaxGradBatches == 2
\* By how much the size of a result handed to finalize may differ from the
\* size of the input.
MaxMismatch == 1
\* Largest number of samples and largest batch_size of a GPROF0DDataset and
\* the number of passes made over it.
MaxDsSamples == 4
MaxDsBatch == 3
MaxEpochs == 2
\* Largest number of batches of the training data handed to legacy GPROF.
MaxLegacyBatches == 2
\* Largest number of channels of a sensor and of scenes of a file given to
\* an adapter of SpecAdapter, and the largest non-default batch size.
MaxChans == 3
MaxAdSamples == 9
MaxAdBatch == 2

\* --------------------------------------------------------------- constants
\* The multiple the last two dimensions are padded to.
Stride == 32

\* ----------------------------------------------------------------- helpers
Min(a, b) == IF a < b THEN a ELSE b
Max(a, b) == IF a > b THEN a ELSE b

\* math.ceil(a / b) for a >= 0, b > 0.
Ceil(a, b) == IF a % b = 0 THEN a \div b ELSE (a \div b) + 1

\* <<0, 1, ..., n-1>>: np.arange(n).
Arange(n) == [k \in 1..n |-> k - 1]

\* The entries of a sequence.
Range(seq) == {seq[k] : k \in 1..Len(seq)}

\* Python's seq[start:stop] for integers start, stop (negative values count
\* from the end, out-of-range values are clamped).
PyIndex(len, k) == IF k < 0 THEN Max(len + k, 0) ELSE Min(k, len)
PySlice(seq, start, stop) ==
    LET lo == PyIndex(Len(seq), start)
        hi == PyIndex(Len(seq), stop)
    IN  IF hi <= lo THEN << >> ELSE SubSeq(seq, lo + 1, hi)

\* ------------------------------------------------- padding (retrieval.py)
\* Mutation used to test C2: the pair of the second-to-last dimension first.
calculate_padding_dimensions_swapped(shape) ==
    LET n    == shape[Len(shape)]
        d_n  == Ceil(n, Stride) * Stride - n
        p_l_n == d_n \div 2
        p_r_n == d_n - p_l_n
        m    == shape[Len(shape) - 1]
        d_m  == Ceil(m, Stride) * Stride - m
        p_l_m == d_m \div 2
        p_r_m == d_m - p_l_m
    IN  <<p_l_m, p_r_m, p_l_n, p_r_n>>

\* calculate_padding_dimensions(t): (p_l_n, p_r_n, p_l_m, p_r_m) with n the
\* last and m the second-to-last dimension of t.shape.
calculate_padding_dimensions(shape) ==
    LET n    == shape[Len(shape)]
        d_n  == Ceil(n, Stride) * Stride - n
        p_l_n == d_n \div 2
        p_r_n == d_n - p_l_n
        m    == shape[Len(shape) - 1]
        d_m  == Ceil(m, Stride) * Stride - m
        p_l_m == d_m \div 2
        p_r_m == d_m - p_l_m
    IN  <<p_l_n, p_r_n, p_l_m, p_r_m>>

\* torch.nn.functional.pad(x, (l, r), mode="replicate") along one axis: the
\* axis is extended by l copies of its first and r copies of its last entry.
ReplicatePad(axis, l, r) ==
    [k \in 1..(Len(axis) + l + r) |-> axis[Max(1, Min(Len(axis), k - l))]]

\* ------------------------------------------------- 2D loaders (retrieval.py)
Grid2DLoaders == {"PreprocessorLoader2D", "NetcdfLoader2D", "SimulatorLoader"}

\* A 2D field is held by its two axis maps: entry k of "scans" (of "pixels")
\* is the scan (pixel) of the input scene whose value row (column) k holds.
\* Padding and cropping act on each axis independently.
Scene(n_scans, n_pixels) ==
    [scans |-> Arange(n_scans), pixels |-> Arange(n_pixels)]

\* torch.nn.functional.pad(x, padding, mode="replicate"): the first pair of
\* padding extends the last dimension (pixels), the second pair the
\* second-to-last dimension (scans).
pad_replicate(x, padding) ==
    [scans  |-> ReplicatePad(x.scans, padding[3], padding[4]),
     pixels |-> ReplicatePad(x.pixels, padding[1], padding[2])]

\* NetcdfLoader2D.__getitem__ / SimulatorLoader.__getitem__ /
\* PreprocessorLoader2D.__getitem__: the scene, padded with self.padding.
Loader2D_getitem(n_scans, n_pixels, padding) ==
    pad_replicate(Scene(n_scans, n_pixels), padding)

\* NetcdfLoader2D.finalize: data[{"scans": slice(padding[0], -padding[1]),
\*                                "pixels": slice(padding[2], -padding[3])}].
NetcdfLoader2D_finalize(data, padding) ==
    [scans  |-> PySlice(data.scans, padding[1], 0 - padding[2]),
     pixels |-> PySlice(data.pixels, padding[3], 0 - padding[4])]

\* PreprocessorLoader2D.finalize: data[{"samples": 0,
\*     "scans": slice(padding[2], -padding[3]),
\*     "pixels": slice(padding[0], -padding[1])}].
PreprocessorLoader2D_finalize(data, padding) ==
    [scans  |-> PySlice(data.scans, padding[3], 0 - padding[4]),
     pixels |-> PySlice(data.pixels, padding[1], 0 - padding[2])]

\* SimulatorLoader.finalize: the crop of its first statement.
SimulatorLoader_finalize(data, padding) ==
    [scans  |-> PySlice(data.scans, padding[1], 0 - padding[2]),
     pixels |-> PySlice(data.pixels, padding[3], 0 - padding[4])]

\* SimulatorLoader.finalize on the prediction for a file of one scene of
\* n_scans x n_pixels: the crop, then the new variables of the cropped size
\* are added to the dataset of the file, which raises ValueError when
\* their "scans" / "pixels" sizes are not those of the file, and the
\* prediction is copied into them.
SimulatorLoader_finalize_scene(data, padding, n_scans, n_pixels) ==
    LET cropped == SimulatorLoader_finalize(data, padding)
    IN  IF \/ Len(cropped.scans) # n_scans
           \/ Len(cropped.pixels) # n_pixels
        THEN [error |-> "ValueError", field |-> << >>]
        ELSE [error |-> "", field |-> cropped]

\* ------------------------------------------------- 0D loaders (retrieval.py)
\* Extents the swath is unstacked to by NetcdfLoader0D.finalize.
SwathScans == 221
SwathPixels == 221

\* np.nan as an entry of a result array.
NaN == << >>

RECURSIVE Product(_)
Product(dims) == IF dims = << >> THEN 1 ELSE Head(dims) * Product(Tail(dims))

\* Index tuple of the element with flat index k of an array of extents dims,
\* in C (row-major) order.
Unravel(k, dims) ==
    [d \in 1..Len(dims) |->
        (k \div Product(SubSeq(dims, d + 1, Len(dims)))) % dims[d]]

\* reshape(-1, n_features): the observations of an array of extents dims in
\* row-major order.  An observation is named by its index tuple in the file.
Flatten(dims) == [k \in 1..Product(dims) |-> Unravel(k - 1, dims)]

\* NetcdfLoader.__len__
NetcdfLoader_len(n_samples, batch_size) ==
    [raised |-> "", value |-> Ceil(n_samples, batch_size)]

\* Mutation used to test C3: the last sample of every batch is left out.
NetcdfLoader_getitem_short(input_data, batch_size, i) ==
    LET i_start == i * batch_size
        i_end   == i_start + batch_size - 1
    IN  [raised |-> "", batch |-> PySlice(input_data, i_start, i_end)]

\* NetcdfLoader.__getitem__
NetcdfLoader_getitem(input_data, batch_size, i) ==
    LET i_start == i * batch_size
        i_end   == i_start + batch_size
    IN  [raised |-> "", batch |-> PySlice(input_data, i_start, i_end)]

\* PreprocessorLoader0D.__init__: self.scans_per_batch
scans_per_batch(batch_size, n_pixels) == batch_size \div n_pixels

\* PreprocessorLoader0D.__len__
PreprocessorLoader0D_len(n_scans, spb) ==
    IF spb = 0 THEN [raised |-> "ZeroDivisionError", value |-> 0]
    ELSE [raised |-> "", value |-> Ceil(n_scans, spb)]

\* PreprocessorLoader0D.__getitem__: the observations of the scans
\* [i_start, i_end), flattened scan by scan.  np.zeros((n, n_inputs)) raises
\* ValueError for a negative n.
PreprocessorLoader0D_getitem(n_scans, n_pixels, spb, i) ==
    LET i_start == i * spb
        i_end   == Min(i_start + spb, n_scans)
        n       == (i_end - i_start) * n_pixels
        scans   == PySlice(Arange(n_scans), i_start, i_end)
    IN  IF n < 0 THEN [raised |-> "ValueError", batch |-> << >>]
        ELSE [raised |-> "",
              batch |-> [k \in 1..n |->
                            <<scans[((k - 1) \div n_pixels) + 1],
                              (k - 1) % n_pixels>>]]

\* len(input_data) and input_data[i] of a loader of class cls built on a file
\* of extents dims.
Loader_len(cls, dims, batch_size) ==
    IF cls = "PreprocessorLoader0D"
    THEN PreprocessorLoader0D_len(dims[1], scans_per_batch(batch_size, dims[2]))
    ELSE NetcdfLoader_len(Product(dims), batch_size)

Loader_getitem(cls, dims, batch_size, i) ==
    IF cls = "PreprocessorLoader0D"
    THEN PreprocessorLoader0D_getitem(dims[1], dims[2],
                                      scans_per_batch(batch_size, dims[2]), i)
    ELSE NetcdfLoader_getitem(Flatten(dims), batch_size, i)

\* NetcdfLoader0D.__init__: kind from the presence of a "scans" dimension.
NetcdfLoader0D_kind(dims) == IF Len(dims) = 3 THEN "standard" ELSE "bin"

\* A result: error is the exception finalize raised ("" for none), vals the
\* entries of each retrieved target in row-major order of the extents dims.
Raised(e) == [error |-> e, dims |-> << >>, vals |-> << >>]

\* data.assign(samples=index).unstack("samples") with index the product of
\* the given extents: fails unless the index has one entry per sample.
Unstack(vals, extents) ==
    IF Product(extents) # Len(vals) THEN Raised("ValueError")
    ELSE [error |-> "", dims |-> extents, vals |-> vals]

\* data[v].data[invalid] = np.nan for the retrieved targets.
MaskInvalid(vals, obs, invalid) ==
    [k \in 1..Len(vals) |-> IF obs[k] \in invalid THEN NaN ELSE vals[k]]

\* PreprocessorLoader0D.finalize
PreprocessorLoader0D_finalize(data, n_scans, n_pixels, invalid) ==
    LET scans == Len(data) \div n_pixels
        un    == Unstack(data, <<scans, n_pixels>>)
    IN  IF un.error # "" THEN un
        ELSE IF un.dims # <<n_scans, n_pixels>> THEN Raised("IndexError")
        ELSE [un EXCEPT !.vals =
                  MaskInvalid(un.vals, Flatten(<<n_scans, n_pixels>>), invalid)]

\* The targets of the retrieval, in the order finalize goes through them.
ALL_TARGETS ==
    <<"surface_precip", "convective_precip", "rain_water_path",
      "ice_water_path", "cloud_water_path", "total_column_water_vapor",
      "rain_water_content", "cloud_water_content", "snow_water_content",
      "latent_heat">>

\* The loop "for v in ALL_TARGETS: data[v].data[invalid] = np.nan" of
\* NetcdfLoader0D.finalize from target k on, as the exception it raises
\* ("" for none): data[v] raises KeyError for a target the result does not
\* hold, and the assignment raises IndexError when the boolean mask, one
\* entry per input sample, has another length than data.
RECURSIVE MaskTargets(_, _, _, _)
MaskTargets(k, retrieved, n_data, n_mask) ==
    IF k > Len(ALL_TARGETS) THEN ""
    ELSE IF ALL_TARGETS[k] \notin retrieved THEN "KeyError"
    ELSE IF n_data # n_mask THEN "IndexError"
    ELSE MaskTargets(k + 1, retrieved, n_data, n_mask)

\* Mutation used to test C18: the invalid observations are masked for
\* every kind.
NetcdfLoader0D_finalize_masks(data, kind, input_data, invalid, retrieved) ==
    IF kind = "standard"
    THEN IF MaskTargets(1, retrieved, Len(data), Len(input_data)) # ""
         THEN Raised(MaskTargets(1, retrieved, Len(data), Len(input_data)))
         ELSE LET masked  == MaskInvalid(data, input_data, invalid)
                  samples == Len(data) \div (SwathScans * SwathPixels)
              IN  Unstack(masked, <<samples, SwathScans, SwathPixels>>)
    ELSE [error |-> "", dims |-> <<Len(data)>>,
          vals |-> MaskInvalid(data, input_data, invalid)]

\* NetcdfLoader0D.finalize on a result that holds the targets retrieved:
\* the first statement of the loop over ALL_TARGETS that raises ends it.
NetcdfLoader0D_finalize(data, kind, input_data, invalid, retrieved) ==
    IF kind = "standard"
    THEN IF MaskTargets(1, retrieved, Len(data), Len(input_data)) # ""
         THEN Raised(MaskTargets(1, retrieved, Len(data), Len(input_data)))
         ELSE LET masked  == MaskInvalid(data, input_data, invalid)
                  samples == Len(data) \div (SwathScans * SwathPixels)
              IN  Unstack(masked, <<samples, SwathScans, SwathPixels>>)
    ELSE [error |-> "", dims |-> <<Len(data)>>, vals |-> data]

Loader_finalize(cls, data, kind, dims, invalid, retrieved) ==
    IF cls = "PreprocessorLoader0D"
    THEN PreprocessorLoader0D_finalize(data, dims[1], dims[2], invalid)
    ELSE NetcdfLoader0D_finalize(data, kind, Flatten(dims), invalid, retrieved)

\* ------------------------------------------- SimulatorLoader (retrieval.py)
\* SimulatorLoader._load_data: dataset[{"samples": dataset.source == 0}], the
\* (0-based) file indices of the samples fed to the model, in file order.
SimulatorLoader_load_data(source) ==
    SelectSeq(Arange(Len(source)), LAMBDA j : source[j + 1] = 0)

\* SimulatorLoader.__getitem__ followed by the model: the prediction for the
\* samples of batch i.  A prediction is named by the file index of its sample
\* and holds one value per position of the padded scene.
SimulatorLoader_getitem(input_data, batch_size, i, n_scans, n_pixels) ==
    LET x       == NetcdfLoader_getitem(input_data, batch_size, i).batch
        padding == calculate_padding_dimensions(<<n_scans, n_pixels>>)
    IN  [k \in 1..Len(x) |->
            [sample |-> x[k],
             field  |-> Loader2D_getitem(n_scans, n_pixels, padding)]]

\* The loop "for i in range(n_samples)" of SimulatorLoader.finalize from
\* sample i on, index predictions having been copied: out is the new
\* variable, initially all NaN.
RECURSIVE SimulatorLoader_copy(_, _, _, _, _)
SimulatorLoader_copy(source, data, i, index, out) ==
    IF i >= Len(source) THEN [error |-> "", samples |-> out]
    ELSE IF source[i + 1] = 0
         THEN IF index >= Len(data)
              THEN [error |-> "IndexError", samples |-> << >>]
              ELSE SimulatorLoader_copy(source, data, i + 1, index + 1,
                                        [out EXCEPT ![i + 1] = data[index + 1]])
         ELSE SimulatorLoader_copy(source, data, i + 1, index, out)

\* SimulatorLoader.finalize(data) on the concatenated predictions.  Without
\* any prediction data is an empty Dataset, which has no "scans" dimension to
\* select from; new variables whose "scans" / "pixels" sizes differ from
\* those of the file cannot be added to the dataset of the file.
SimulatorLoader_finalize_file(source, data, n_scans, n_pixels) ==
    LET padding == calculate_padding_dimensions(<<n_scans, n_pixels>>)
        cropped == [k \in 1..Len(data) |->
                      [data[k] EXCEPT
                          !.field = SimulatorLoader_finalize(@, padding)]]
        nan     == [k \in 1..Len(source) |-> NaN]
    IN  IF data = << >> THEN [error |-> "ValueError", samples |-> << >>]
        ELSE IF \/ Len(cropped[1].field.scans) # n_scans
                \/ Len(cropped[1].field.pixels) # n_pixels
             THEN [error |-> "ValueError", samples |-> << >>]
        ELSE SimulatorLoader_copy(source, cropped, 0, 0, nan)

\* ------------------------------------------------------ feature encoders
\* Number of surface-type slots (n_types = 18) and of airmass slots of the
\* retrieval encoders (n_types = 4) and of GPROF0DDataset (n_types = 3).
N_SURFACE_TYPES == 18
N_AIRMASS_TYPES == 4
N_AIRMASS_TYPES_0D == 3
\* Bounds of a valid brightness temperature.
BT_MIN == 0
BT_MAX == 500
\* First of the high-frequency channels GPROF0DDataset masks at random.
AUGMENT_FROM == 10

\* A number as an entry of an array that may hold np.nan.
Val(v) == <<v>>

Zeros(n) == [k \in 1..n |-> 0]
RECURSIVE Sum(_)
Sum(seq) == IF seq = << >> THEN 0 ELSE Head(seq) + Sum(Tail(seq))

\* Python's a[k] = 1.0 on an array of n slots: a negative k counts from the
\* end, a k outside [-n, n) raises IndexError.
SetSlot(a, k) ==
    LET n == Len(a)
    IN  IF k >= n \/ k < 0 - n THEN [raised |-> "IndexError", value |-> a]
        ELSE [raised |-> "",
              value |-> [a EXCEPT ![(IF k < 0 THEN k + n ELSE k) + 1] = 1]]

Features(bt, st_1h, am_1h) ==
    [raised |-> "", bt |-> bt, st_1h |-> st_1h, am_1h |-> am_1h]
NoFeatures(e) ==
    [raised |-> e, bt |-> NaN, st_1h |-> << >>, am_1h |-> << >>]

\* combine_input_data_2d, for one observation.
combine_input_data_2d(bt, st, am) ==
    LET invalid == (bt > BT_MAX) \/ (bt < BT_MIN)
        bts     == IF invalid THEN NaN ELSE Val(bt)
        st_1h   == [i \in 1..N_SURFACE_TYPES |-> IF st = (i - 1) + 1 THEN 1 ELSE 0]
        am_1h0  == [i \in 1..N_AIRMASS_TYPES |-> IF am = i - 1 THEN 1 ELSE 0]
        am_1h   == IF am < 0 THEN [am_1h0 EXCEPT ![1] = 1] ELSE am_1h0
    IN  Features(bts, st_1h, am_1h)

\* self.normalizer(x): the normalizer is a collaborator handed to the
\* constructor; its output for an entry v of x is kept as the term
\* [normalized |-> v].
Normalized(v) == [normalized |-> v]
Normalizer(x) ==
    [raised |-> x.raised,
     bt     |-> Normalized(x.bt),
     st_1h  |-> [j \in 1..Len(x.st_1h) |-> Normalized(x.st_1h[j])],
     am_1h  |-> [j \in 1..Len(x.am_1h) |-> Normalized(x.am_1h[j])]]

\* Mutation used to test C9: np.maximum(..., 0.0) is left out.
PreprocessorLoader0D_encode_nomax(bt, st, am) ==
    LET x_bt == IF bt < 0 THEN NaN ELSE Val(bt)
        st_1h == [j \in 1..N_SURFACE_TYPES |-> IF st = (j - 1) + 1 THEN 1 ELSE 0]
        am_1h == [j \in 1..N_AIRMASS_TYPES |-> IF am = j - 1 THEN 1 ELSE 0]
    IN  Normalizer(Features(x_bt, st_1h, am_1h))

\* PreprocessorLoader0D.__getitem__, for one observation: the row of x is
\* filled and the normalizer's output for it is returned.
PreprocessorLoader0D_encode(bt, st, am) ==
    LET at   == Max(am, 0)
        x_bt == IF bt < 0 THEN NaN ELSE Val(bt)
        st_1h == [j \in 1..N_SURFACE_TYPES |-> IF st = (j - 1) + 1 THEN 1 ELSE 0]
        am_1h == [j \in 1..N_AIRMASS_TYPES |-> IF at = j - 1 THEN 1 ELSE 0]
    IN  Normalizer(Features(x_bt, st_1h, am_1h))

\* GPROF0DDataset._load_data, for one observation: bt is the brightness
\* temperature of channel chan, r_high says that the random number drawn for
\* the observation exceeds 0.8.
GPROF0DDataset_load_data(bt, chan, st, am, augment, r_high) ==
    LET invalid == (bt > BT_MAX) \/ (bt < BT_MIN)
        bts0    == IF invalid THEN NaN ELSE Val(bt)
        bts     == IF augment /\ r_high /\ chan >= AUGMENT_FROM
                   THEN NaN ELSE bts0
        st_1h   == SetSlot(Zeros(N_SURFACE_TYPES), st - 1)
        am_1h   == SetSlot(Zeros(N_AIRMASS_TYPES_0D), Max(am - 1, 0))
    IN  IF st_1h.raised # "" THEN NoFeatures(st_1h.raised)
        ELSE IF am_1h.raised # "" THEN NoFeatures(am_1h.raised)
        ELSE Features(bts, st_1h.value, am_1h.value)

\* np.where(a)[1] for one row: the (0-based) indices of its non-zero slots.
Where(a) == SelectSeq(Arange(Len(a)), LAMBDA j : a[j + 1] # 0)

\* GPROF0DDataset.save, for one observation: the surface_type and
\* airmass_type it stores.
GPROF0DDataset_save(x) ==
    [surface_type |-> Where(x.st_1h), airmass_type |-> Where(x.am_1h)]

\* Idle values of the variable groups a specification does not use.
PadIdle  == t_shape = << >> /\ t_padding = << >>
LoaderIdle ==
    /\ l_class = NoValue /\ l_kind = NoValue /\ l_dims = << >>
    /\ l_batch_size = 0 /\ l_invalid = {} /\ l_retrieved = {}
    /\ l_i = 0 /\ l_batches = << >> /\ l_means = << >>
    /\ l_phase = NoValue /\ l_result = << >> /\ l_probe = << >>
GridIdle == /\ g_loader = NoValue /\ g_scans = 0 /\ g_pixels = 0
            /\ g_padding = << >> /\ g_phase = NoValue
            /\ g_x = << >> /\ g_out = << >>
EncIdle  == /\ e_encoder = NoValue /\ e_in = << >>
            /\ e_phase = NoValue /\ e_x = << >> /\ e_saved = << >>
SimIdle  == /\ s_source = << >> /\ s_scans = 0 /\ s_pixels = 0
            /\ s_batch_size = 0 /\ s_i = 0 /\ s_means = << >>
            /\ s_phase = NoValue /\ s_result = << >>
DrvIdle  == /\ d_suffix = << >> /\ d_output_arg = NoValue
            /\ d_formats = << >> /\ d_adapter = << >> /\ d_len = 0
            /\ d_pc = NoValue /\ d_tmp = NoValue /\ d_status = -1
            /\ d_i = 0 /\ d_calls = << >> /\ d_log = 0
            /\ d_file = << >> /\ d_return = NoValue
GradIdle == /\ q_targets = << >> /\ q_len = 0 /\ q_i = 0 /\ q_j = 0
            /\ q_xgrad = {} /\ q_pgrad = {} /\ q_grads = {}
            /\ q_gradients = << >> /\ q_phase = NoValue
DsIdle   == /\ ds_n = 0 /\ ds_batch_size = 0 /\ ds_shuffle = FALSE
            /\ ds_shuffled = FALSE /\ ds_x = << >> /\ ds_i = 0
            /\ ds_batches = << >> /\ ds_epoch = 0 /\ ds_phase = NoValue
LgIdle   == /\ lg_fn = NoValue /\ lg_sensor = NoValue /\ lg_mode = << >>
            /\ lg_robust = FALSE /\ lg_suffix = << >> /\ lg_pp_status = -1
            /\ lg_exits = << >> /\ lg_haslog = FALSE /\ lg_i = 0
            /\ lg_results = << >> /\ lg_files = {} /\ lg_started = << >>
            /\ lg_logged = 0 /\ lg_raised = NoValue /\ lg_return = NoValue
            /\ lg_pc = NoValue
AdIdle   == /\ a_class = NoValue /\ a_sensor = NoValue /\ a_n_chans = 0
            /\ a_samples = 0 /\ a_batch_size = 0 /\ a_norm = 0
            /\ a_len = -1 /\ a_x = << >> /\ a_phase = NoValue
OutIdle  == /\ o_name = << >> /\ o_output_arg = NoValue
            /\ o_output_name = << >> /\ o_formats = << >> /\ o_file = << >>
            /\ o_writer = NoValue /\ o_phase = NoValue
OnlyPad  == GridIdle /\ LoaderIdle /\ EncIdle /\ SimIdle /\ DrvIdle /\ GradIdle
            /\ DsIdle /\ LgIdle /\ AdIdle /\ OutIdle
OnlyGrid == PadIdle /\ LoaderIdle /\ EncIdle /\ SimIdle /\ DrvIdle /\ GradIdle
            /\ DsIdle /\ LgIdle /\ AdIdle /\ OutIdle
OnlyLd   == PadIdle /\ GridIdle /\ EncIdle /\ SimIdle /\ DrvIdle /\ GradIdle
            /\ DsIdle /\ LgIdle /\ AdIdle /\ OutIdle
OnlyEnc  == PadIdle /\ GridIdle /\ LoaderIdle /\ SimIdle /\ DrvIdle /\ GradIdle
            /\ DsIdle /\ LgIdle /\ AdIdle /\ OutIdle
OnlySim  == PadIdle /\ GridIdle /\ LoaderIdle /\ EncIdle /\ DrvIdle /\ GradIdle
            /\ DsIdle /\ LgIdle /\ AdIdle /\ OutIdle
OnlyDrv  == PadIdle /\ GridIdle /\ LoaderIdle /\ EncIdle /\ SimIdle /\ GradIdle
            /\ DsIdle /\ LgIdle /\ AdIdle /\ OutIdle
OnlyGrad == PadIdle /\ GridIdle /\ LoaderIdle /\ EncIdle /\ SimIdle /\ DrvIdle
            /\ DsIdle /\ LgIdle /\ AdIdle /\ OutIdle
OnlyDs   == PadIdle /\ GridIdle /\ LoaderIdle /\ EncIdle /\ SimIdle /\ DrvIdle
            /\ GradIdle /\ LgIdle /\ AdIdle /\ OutIdle
OnlyLg   == PadIdle /\ GridIdle /\ LoaderIdle /\ EncIdle /\ SimIdle /\ DrvIdle
            /\ GradIdle /\ DsIdle /\ AdIdle /\ OutIdle
OnlyAd   == PadIdle /\ GridIdle /\ LoaderIdle /\ EncIdle /\ SimIdle /\ DrvIdle
            /\ GradIdle /\ DsIdle /\ LgIdle /\ OutIdle
OnlyOut  == PadIdle /\ GridIdle /\ LoaderIdle /\ EncIdle /\ SimIdle /\ DrvIdle
            /\ GradIdle /\ DsIdle /\ LgIdle /\ AdIdle

\* ------------------------------------------------------------- SpecPad
PadInit ==
    /\ t_shape \in {<<m, n>> : m \in 1..MaxShape, n \in 1..MaxShape}
    /\ t_padding = << >>
    /\ OnlyPad

CalcPadding ==
    /\ t_padding = << >>
    /\ t_padding' = calculate_padding_dimensions(t_shape)
    /\ UNCHANGED <<t_shape, notPad>>

PadNext == CalcPadding

SpecPad == PadInit /\ [][PadNext]_vars

\* The padded size of a dimension of size n padded with (l, r) is the
\* smallest multiple of Stride that is >= n, and the pads are balanced.
PadsDimension(n, l, r) ==
    /\ l >= 0 /\ r >= 0
    /\ (l + n + r) % Stride = 0
    /\ l + n + r >= n
    /\ l + n + r - Stride < n
    /\ 0 <= r - l /\ r - l <= 1
    /\ l + r < Stride

\* C2: for every positive n, calculate_padding_dimensions pads each of the
\* last two dimensions to the smallest multiple of 32 >= n with
\* pad_left = d // 2, pad_right = d - pad_left (221 -> (1, 2), size 224); the
\* pair of the last dimension comes first, the second-to-last second.
C2_PaddingDimensions ==
    t_padding # << >> =>
        LET m == t_shape[1]
            n == t_shape[2]
            d_n == t_padding[1] + t_padding[2]
            d_m == t_padding[3] + t_padding[4]
        IN  /\ PadsDimension(n, t_padding[1], t_padding[2])
            /\ PadsDimension(m, t_padding[3], t_padding[4])
            /\ t_padding[1] = d_n \div 2
            /\ t_padding[3] = d_m \div 2
            /\ (n = 221 => t_padding[1] = 1 /\ t_padding[2] = 2)
            /\ (m = 221 => t_padding[3] = 1 /\ t_padding[4] = 2)

\* C2 witness: the 221 x 33 tensor has been padded with (15, 16) for its
\* last and (1, 2) for its second-to-last dimension.
C2_Witness ==
    /\ t_shape = <<221, 33>>
    /\ t_padding = <<15, 16, 1, 2>>

\* ------------------------------------------------------------- SpecGrid
\* One scene through a 2D loader: construction, __getitem__, the model's
\* prediction (one value per padded position) and finalize.
GridInit ==
    /\ g_loader \in Grid2DLoaders
    /\ g_scans \in 1..MaxDim
    /\ g_pixels \in 1..MaxDim
    /\ g_padding = calculate_padding_dimensions(<<g_scans, g_pixels>>)
    /\ g_phase = "loaded"
    /\ g_x = << >>
    /\ g_out = << >>
    /\ OnlyGrid

\* x = input_data[i]
GridGetItem ==
    /\ g_phase = "loaded"
    /\ g_x' = Loader2D_getitem(g_scans, g_pixels, g_padding)
    /\ g_phase' = "batch"
    /\ UNCHANGED <<g_loader, g_scans, g_pixels, g_padding, g_out, notGrid>>

\* y_pred = xrnn.predict(x): the prediction has the spatial shape of x and
\* the value at a position is the prediction for the observation there.
GridPredict ==
    /\ g_phase = "batch"
    /\ g_out' = g_x
    /\ g_phase' = "predicted"
    /\ UNCHANGED <<g_loader, g_scans, g_pixels, g_padding, g_x, notGrid>>

GridFinalizeNetcdf ==
    /\ g_phase = "predicted"
    /\ g_loader = "NetcdfLoader2D"
    /\ g_out' = NetcdfLoader2D_finalize(g_out, g_padding)
    /\ g_phase' = "finalized"
    /\ UNCHANGED <<g_loader, g_scans, g_pixels, g_padding, g_x, notGrid>>

GridFinalizePreprocessor ==
    /\ g_phase = "predicted"
    /\ g_loader = "PreprocessorLoader2D"
    /\ g_out' = PreprocessorLoader2D_finalize(g_out, g_padding)
    /\ g_phase' = "finalized"
    /\ UNCHANGED <<g_loader, g_scans, g_pixels, g_padding, g_x, notGrid>>

GridFinalizeSimulator ==
    /\ g_phase = "predicted"
    /\ g_loader = "SimulatorLoader"
    /\ LET r == SimulatorLoader_finalize_scene(g_out, g_padding, g_scans,
                                                g_pixels)
       IN  /\ g_out' = r.field
           /\ g_phase' = IF r.error = "" THEN "finalized" ELSE "raised"
    /\ UNCHANGED <<g_loader, g_scans, g_pixels, g_padding, g_x, notGrid>>

GridNext ==
    \/ GridGetItem
    \/ GridPredict
    \/ GridFinalizeNetcdf
    \/ GridFinalizePreprocessor
    \/ GridFinalizeSimulator

SpecGrid == GridInit /\ [][GridNext]_vars

\* C1: for every 2D loader and every positive scene height and width,
\* finalize restores exactly the original height and width with every
\* element at its original position: invert(apply(x)) == x.
C1_CropInvertsPad ==
    /\ g_phase # "raised"
    /\ g_phase = "finalized" =>
        /\ g_out.scans = Arange(g_scans)
        /\ g_out.pixels = Arange(g_pixels)

\* ----------------------------------------------------------- SpecLoader
\* One input file through a 0D loader and RetrievalDriver._run.
LoaderFiles ==
    {<<"NetcdfLoader0D", <<n>>>> : n \in 0..MaxSamples}
    \cup {<<"NetcdfLoader0D", <<s, m, n>>>> :
              s \in 1..MaxScenes, m \in 1..MaxScans, n \in 1..MaxPixels}
    \cup {<<"PreprocessorLoader0D", <<m, n>>>> :
              m \in 1..MaxScans, n \in 1..MaxPixels}

\* The results _run hands to finalize: every target, surface_precip alone,
\* or a single target other than surface_precip.
RetrievedTargets ==
    {Range(ALL_TARGETS), {"surface_precip"}, {"rain_water_path"}}

LoaderInit ==
    /\ \E f \in LoaderFiles :
          /\ l_class = f[1]
          /\ l_dims = f[2]
          /\ l_kind = IF f[1] = "NetcdfLoader0D"
                      THEN NetcdfLoader0D_kind(f[2]) ELSE NoValue
          /\ l_invalid \in {{}} \cup {{o} : o \in Range(Flatten(f[2]))}
    /\ l_batch_size \in 1..MaxBatch
    /\ l_retrieved \in RetrievedTargets
    /\ l_i = 0
    /\ l_batches = << >>
    /\ l_means = << >>
    /\ l_phase = "loaded"
    /\ l_result = << >>
    /\ l_probe = << >>
    /\ OnlyLd

LoaderLen == Loader_len(l_class, l_dims, l_batch_size)

\* for i in range(len(input_data)): len raises.
RunLenRaises ==
    /\ l_phase = "loaded"
    /\ LoaderLen.raised # ""
    /\ l_phase' = "failed"
    /\ l_result' = Raised(LoaderLen.raised)
    /\ UNCHANGED <<l_class, l_kind, l_dims, l_batch_size, l_invalid,
                   l_retrieved, l_i, l_batches, l_means, l_probe, notLd>>

\* One iteration of the loop of _run: x = input_data[i], the prediction for
\* every row of x is appended.  The prediction for an observation is named
\* by the observation.
RunBatch ==
    /\ l_phase \in {"loaded", "running"}
    /\ LoaderLen.raised = ""
    /\ l_i < LoaderLen.value
    /\ LET x == Loader_getitem(l_class, l_dims, l_batch_size, l_i)
       IN  /\ x.raised = ""
           /\ l_batches' = Append(l_batches, x.batch)
           /\ l_means' = l_means \o x.batch
    /\ l_i' = l_i + 1
    /\ l_phase' = "running"
    /\ UNCHANGED <<l_class, l_kind, l_dims, l_batch_size, l_invalid,
                   l_retrieved, l_result, l_probe, notLd>>

\* The end of _run: concatenate and input_data.finalize(data).
RunFinalize ==
    /\ l_phase \in {"loaded", "running"}
    /\ LoaderLen.raised = ""
    /\ l_i = LoaderLen.value
    /\ l_result' = Loader_finalize(l_class, l_means, l_kind, l_dims,
                                   l_invalid, l_retrieved)
    /\ l_phase' = "finalized"
    /\ UNCHANGED <<l_class, l_kind, l_dims, l_batch_size, l_invalid,
                   l_retrieved, l_i, l_batches, l_means, l_probe, notLd>>

\* A caller asks the freshly built loader for batch i, any i >= 0.
Probe ==
    /\ l_phase = "loaded"
    /\ LoaderLen.raised = ""
    /\ \E i \in 0..(LoaderLen.value + 1) :
          LET x == Loader_getitem(l_class, l_dims, l_batch_size, i)
          IN  l_probe' = [index |-> i, raised |-> x.raised, batch |-> x.batch]
    /\ l_phase' = "probed"
    /\ UNCHANGED <<l_class, l_kind, l_dims, l_batch_size, l_invalid,
                   l_retrieved, l_i, l_batches, l_means, l_result, notLd>>

LoaderNext ==
    \/ RunLenRaises
    \/ RunBatch
    \/ RunFinalize
    \/ Probe

SpecLoader == LoaderInit /\ [][LoaderNext]_vars

\* The samples [a, b) of the flattened input, in order.
SampleRange(a, b) == [k \in 1..(b - a) |-> Unravel(a + k - 1, l_dims)]

\* C3: for every n_samples >= 0 and batch_size >= 1 a NetcdfLoader-derived
\* loader has ceil(n_samples / batch_size) batches, batch i covers exactly the
\* samples [i*batch_size, min((i+1)*batch_size, n_samples)), and the batches
\* 0..length()-1 are pairwise disjoint and together cover [0, n_samples).
C3_BatchCoverage ==
    l_class = "NetcdfLoader0D" =>
        LET n == Product(l_dims)
            b == l_batch_size
        IN  /\ \A k \in 1..Len(l_batches) :
                  /\ (k - 1) * b < n
                  /\ l_batches[k] = SampleRange((k - 1) * b, Min(k * b, n))
            /\ \A j, k \in 1..Len(l_batches) :
                  j # k => Range(l_batches[j]) \cap Range(l_batches[k]) = {}
            /\ l_phase = "finalized" =>
                  /\ Len(l_batches) * b >= n
                  /\ (Len(l_batches) - 1) * b < n \/ Len(l_batches) = 0
                  /\ l_means = SampleRange(0, n)

\* C3 witness: 10 samples with batch_size 4 were delivered as 4, 4 and 2.
C3_Witness ==
    /\ l_class = "NetcdfLoader0D"
    /\ l_dims = <<10>>
    /\ l_batch_size = 4
    /\ l_phase = "finalized"
    /\ Len(l_batches) = 3
    /\ Len(l_batches[1]) = 4 /\ Len(l_batches[2]) = 4 /\ Len(l_batches[3]) = 2

\* C4: requesting a batch with index >= length() fails with IndexError; it
\* never returns an empty, repeated or otherwise valid-looking batch.
C4_IndexErrorPastEnd ==
    (l_probe # << >> /\ l_probe.index >= LoaderLen.value) =>
        l_probe.raised = "IndexError"

\* C5: after all batches have been predicted in order and finalize has run,
\* the value at each output position is the prediction for the observation
\* at that position of the input; the result has the extents of the file.
C5_PositionsRestored ==
    l_phase = "finalized" =>
        /\ l_result.error = ""
        /\ l_result.dims = l_dims
        /\ \A k \in 1..Len(l_result.vals) :
              l_result.vals[k] \in {Unravel(k - 1, l_dims), NaN}

\* C6: in the output of finalize an observation whose channels are all
\* invalid has every retrieved target set to NaN, and every other
\* observation keeps the model output.
C6_InvalidObservationsMissing ==
    (l_phase = "finalized" /\ l_result.error = "") =>
        \A k \in 1..Len(l_result.vals) :
            LET o == Unravel(k - 1, l_dims)
            IN  /\ o \in l_invalid => l_result.vals[k] = NaN
                /\ o \notin l_invalid => l_result.vals[k] = o

\* -------------------------------------------------------------- SpecEnc
\* One observation through each of the encoders.
Encoders == {"combine_input_data_2d", "PreprocessorLoader0D", "GPROF0DDataset"}
BtValues == ((BT_MIN - BtMargin)..(BT_MIN + BtMargin))
            \cup ((BT_MAX - BtMargin)..(BT_MAX + BtMargin)) \cup {-9999}
Channels == {0, AUGMENT_FROM}

EncInit ==
    /\ e_encoder \in Encoders
    /\ \E bt \in BtValues, chan \in Channels, st \in 0..MaxSurfaceCode,
          am \in (0 - MaxNegAirmass)..MaxAirmassCode,
          augment \in BOOLEAN, r_high \in BOOLEAN :
          /\ e_encoder # "GPROF0DDataset" => ~augment /\ ~r_high
          /\ ~augment => ~r_high
          /\ e_in = [bt |-> bt, chan |-> chan, st |-> st, am |-> am,
                     augment |-> augment, r_high |-> r_high]
    /\ e_phase = "input"
    /\ e_x = NoFeatures(NoValue)
    /\ e_saved = << >>
    /\ OnlyEnc

Encode2D ==
    /\ e_phase = "input"
    /\ e_encoder = "combine_input_data_2d"
    /\ e_x' = combine_input_data_2d(e_in.bt, e_in.st, e_in.am)
    /\ e_phase' = "encoded"
    /\ UNCHANGED <<e_encoder, e_in, e_saved, notEnc>>

EncodePreprocessor0D ==
    /\ e_phase = "input"
    /\ e_encoder = "PreprocessorLoader0D"
    /\ e_x' = PreprocessorLoader0D_encode(e_in.bt, e_in.st, e_in.am)
    /\ e_phase' = "encoded"
    /\ UNCHANGED <<e_encoder, e_in, e_saved, notEnc>>

EncodeGPROF0D ==
    /\ e_phase = "input"
    /\ e_encoder = "GPROF0DDataset"
    /\ e_x' = GPROF0DDataset_load_data(e_in.bt, e_in.chan, e_in.st, e_in.am,
                                       e_in.augment, e_in.r_high)
    /\ e_phase' = "encoded"
    /\ UNCHANGED <<e_encoder, e_in, e_saved, notEnc>>

\* GPROF0DDataset.save of the dataset just loaded (normalize=False).
EncSave ==
    /\ e_phase = "encoded"
    /\ e_encoder = "GPROF0DDataset"
    /\ e_x.raised = ""
    /\ e_saved' = GPROF0DDataset_save(e_x)
    /\ e_phase' = "saved"
    /\ UNCHANGED <<e_encoder, e_in, e_x, notEnc>>

EncNext ==
    \/ Encode2D
    \/ EncodePreprocessor0D
    \/ EncodeGPROF0D
    \/ EncSave

SpecEnc == EncInit /\ [][EncNext]_vars

\* The feature vector an encoder built: what it returned, or the argument
\* of the normalizer when the encoder returns the normalizer's output.
FeatureVector ==
    IF e_encoder = "PreprocessorLoader0D" /\ e_phase = "encoded"
    THEN [raised |-> e_x.raised,
          bt     |-> e_x.bt.normalized,
          st_1h  |-> [j \in 1..Len(e_x.st_1h) |-> e_x.st_1h[j].normalized],
          am_1h  |-> [j \in 1..Len(e_x.am_1h) |-> e_x.am_1h[j].normalized]]
    ELSE e_x

\* The array of n slots with exactly slot k (0-based) set.
OneHot(n, k) == [j \in 1..n |-> IF j = k + 1 THEN 1 ELSE 0]

\* C7: a surface-type code c in 1..18 sets exactly slot c-1 of the 18-slot
\* surface block; a code outside 1..18 (0 and 19 in particular) leaves the
\* whole block zero without raising an error.
C7_SurfaceOneHot ==
    e_phase = "encoded" =>
        /\ FeatureVector.raised = ""
        /\ FeatureVector.st_1h = IF e_in.st \in 1..18 THEN OneHot(18, e_in.st - 1)
                       ELSE Zeros(18)

\* C8: the airmass block has 4 slots, a code c in 0..3 sets exactly slot c
\* and every negative code sets exactly slot 0.
C8_AirmassOneHot ==
    (e_phase = "encoded" /\ e_in.am <= 3) =>
        /\ FeatureVector.raised = ""
        /\ FeatureVector.am_1h = OneHot(4, Max(e_in.am, 0))

\* C9 as stated: every feature vector has exactly one slot set in the
\* surface-type block and exactly one in the airmass block, for every code
\* of the input.
C9_ExactlyOneSlot ==
    e_phase = "encoded" =>
        /\ FeatureVector.raised = ""
        /\ Sum(FeatureVector.st_1h) = 1
        /\ Sum(FeatureVector.am_1h) = 1

\* C9 as amended: for a surface code in 1..18 and an airmass code <= 3 every
\* encoder returns a feature vector with exactly one slot set in the
\* surface-type block and exactly one in the airmass block.
C9_ExactlyOneSlotInRange ==
    (e_phase = "encoded" /\ e_in.st \in 1..18 /\ e_in.am <= 3) =>
        /\ FeatureVector.raised = ""
        /\ Sum(FeatureVector.st_1h) = 1
        /\ Sum(FeatureVector.am_1h) = 1

\* C9 witness: the preprocessor encoder has encoded surface code 18 with a
\* negative airmass code, setting the last surface slot and airmass slot 0.
C9_Witness ==
    /\ e_phase = "encoded"
    /\ e_encoder = "PreprocessorLoader0D"
    /\ e_in.st = 18 /\ e_in.am < 0
    /\ FeatureVector.st_1h[18] = 1
    /\ FeatureVector.am_1h[1] = 1

\* C10: a brightness temperature below 0 or above 500 appears as NaN and a
\* value inside [0, 500] appears unchanged (random masking of the
\* high-frequency channels for augmentation set aside).
C10_InvalidBtMissing ==
    (e_phase = "encoded" /\ FeatureVector.raised = "" /\ ~e_in.augment) =>
        FeatureVector.bt = IF e_in.bt < 0 \/ e_in.bt > 500 THEN NaN ELSE Val(e_in.bt)


\* -------------------------------------------------------------- SpecSim
\* One file through SimulatorLoader and RetrievalDriver._run.
SimInit ==
    /\ s_source \in UNION {[1..n -> {0, 1}] : n \in 0..MaxSimSamples}
    /\ s_scans \in 1..MaxSimDim
    /\ s_pixels \in 1..MaxSimDim
    /\ s_batch_size \in 1..MaxSimBatch
    /\ s_i = 0
    /\ s_means = << >>
    /\ s_phase = "loaded"
    /\ s_result = << >>
    /\ OnlySim

SimInput == SimulatorLoader_load_data(s_source)
SimLen == NetcdfLoader_len(Len(SimInput), s_batch_size).value

\* One iteration of the loop of _run.
SimBatch ==
    /\ s_phase \in {"loaded", "running"}
    /\ s_i < SimLen
    /\ s_means' = s_means \o SimulatorLoader_getitem(SimInput, s_batch_size,
                                                     s_i, s_scans, s_pixels)
    /\ s_i' = s_i + 1
    /\ s_phase' = "running"
    /\ UNCHANGED <<s_source, s_scans, s_pixels, s_batch_size, s_result,
                   notSim>>

\* The end of _run: input_data.finalize(data).
SimFinalize ==
    /\ s_phase \in {"loaded", "running"}
    /\ s_i = SimLen
    /\ s_result' = SimulatorLoader_finalize_file(s_source, s_means,
                                                 s_scans, s_pixels)
    /\ s_phase' = "finalized"
    /\ UNCHANGED <<s_source, s_scans, s_pixels, s_batch_size, s_i, s_means,
                   notSim>>

SimNext ==
    \/ SimBatch
    \/ SimFinalize

SpecSim == SimInit /\ [][SimNext]_vars

\* The number of source-0 samples among the first i samples of the file.
SourceZeroBefore(i) == Cardinality({j \in 1..i : s_source[j] = 0})

\* C11: only the source-0 samples are fed to the model; finalize returns the
\* full dataset in which the k-th source-0 sample holds the k-th prediction
\* (the whole scene), every other sample is entirely NaN, and as many
\* predictions are consumed as there are source-0 samples.
C11_SourceSubset ==
    /\ \A k \in 1..Len(s_means) : s_source[s_means[k].sample + 1] = 0
    /\ s_phase = "finalized" =>
          /\ Len(s_means) = SourceZeroBefore(Len(s_source))
          /\ s_result.error = ""
          /\ Len(s_result.samples) = Len(s_source)
          /\ \A i \in 1..Len(s_source) :
                IF s_source[i] = 0
                THEN s_result.samples[i] =
                        [sample |-> s_means[SourceZeroBefore(i)].sample,
                         field  |-> Scene(s_scans, s_pixels)]
                ELSE s_result.samples[i] = NaN

\* The sample bookkeeping of C11 on the files finalize accepts: square
\* scenes with at least one source-0 sample.
SimSquareOk ==
    (s_phase = "finalized" /\ s_scans = s_pixels /\ s_means # << >>) =>
        /\ s_result.error = ""
        /\ \A i \in 1..Len(s_source) :
              IF s_source[i] = 0
              THEN s_result.samples[i] =
                      [sample |-> i - 1, field |-> Scene(s_scans, s_pixels)]
              ELSE s_result.samples[i] = NaN


\* ------------------------------------------- RetrievalDriver (retrieval.py)
GPROF_BINARY == "GPROF_BINARY"
L1C == "L1C"
NETCDF == "NETCDF"

\* File suffixes are tuples of characters.
SuffixPP   == <<".", "p", "p">>
SuffixHDF5 == <<".", "H", "D", "F", "5">>
SuffixNC   == <<".", "n", "c">>
SuffixBin  == <<".", "b", "i", "n">>
SuffixBIN  == <<".", "B", "I", "N">>
InputSuffixes == {SuffixPP, SuffixHDF5, SuffixNC, SuffixBin, SuffixBIN}

\* str.endswith and str.lower
EndsWith(str, t) ==
    Len(str) >= Len(t) /\ SubSeq(str, Len(str) - Len(t) + 1, Len(str)) = t
LowerChar(c) ==
    CASE c = "B" -> "b" [] c = "I" -> "i" [] c = "N" -> "n"
      [] c = "H" -> "h" [] c = "D" -> "d" [] c = "F" -> "f"
      [] OTHER -> c
Lower(str) == [k \in 1..Len(str) |-> LowerChar(str[k])]

\* RetrievalDriver.__init__: the formats and the suffix of the output file.
RetrievalDriver_init(suffix, output_file) ==
    LET input_format ==
            IF EndsWith(suffix, <<"p", "p">>) THEN GPROF_BINARY
            ELSE IF EndsWith(suffix, <<"H", "D", "F", "5">>) THEN L1C
            ELSE NETCDF
        output_format ==
            IF output_file = "None" THEN input_format
            ELSE IF input_format \in {NETCDF, L1C} THEN NETCDF
            ELSE IF EndsWith(Lower(suffix), <<"b", "i", "n">>)
                 THEN GPROF_BINARY
                 ELSE NETCDF
        output_suffix ==
            IF output_format = NETCDF THEN SuffixNC ELSE SuffixBIN
    IN  [input_format |-> input_format, output_format |-> output_format,
         output_suffix |-> output_suffix]

\* run_preprocessor(..., robust): the exception it raises ("" for none) when
\* the preprocessor executable exits with the given status.
run_preprocessor(status, robust) ==
    IF status = 0 \/ robust THEN "" ELSE "CalledProcessError"

\* Mutation used to test C12: the except clause catches nothing.
load_input_data_except_none(exc) == FALSE

\* _load_input_data: "except subprocess.CalledProcessError" catches exc.
load_input_data_except(exc) == exc = "CalledProcessError"

\* Mutation used to test C13: the unlink follows the try statement instead
\* of being its finally clause.
load_input_data_finally_late(path) ==
    IF path = "finally_ok" THEN "deleted" ELSE "exists"

\* _load_input_data: "finally: Path(file).unlink()", the state of the
\* temporary file after the clause, on each path through the try statement.
load_input_data_finally(path) == "deleted"

\* The adapters model.preprocessor_class and model.netcdf_class construct,
\* as <<class, kind>>.
PreprocessorClasses ==
    {<<"PreprocessorLoader0D", NoValue>>, <<"PreprocessorLoader2D", NoValue>>}
NetcdfClasses ==
    {<<"NetcdfLoader0D", "standard">>, <<"NetcdfLoader0D", "bin">>,
     <<"NetcdfLoader2D", NoValue>>}
\* len(input_data)
AdapterLens(adapter) ==
    IF adapter[1] = "PreprocessorLoader2D" THEN {1} ELSE 0..MaxDriverBatches
\* hasattr(input_data, "data")
HasData(adapter) == adapter \in PreprocessorClasses

\* The variables of the Dataset finalize returns and the input fields run
\* adds to it.
FinalizeVars(adapter) ==
    {"targets"} \cup
    IF adapter = <<"NetcdfLoader0D", "standard">>
    THEN {"latitude", "longitude", "total_column_water_vapor",
          "two_meter_temperature"}
    ELSE {}
Passthrough ==
    {"latitude", "longitude", "total_column_water_vapor",
     "two_meter_temperature", "surface_type", "airmass_type"}

\* Mutation used to test C14: the loop leaves out the last batch.
RetrievalDriver_run_step_short(pc, i, n) ==
    IF pc \in {"loaded", "running"}
    THEN IF i < n - 1 THEN "predict" ELSE "finalize"
    ELSE IF pc = "finalized" THEN "mkdir"
    ELSE IF pc = "dir" THEN "write"
    ELSE "none"

\* The next call of run / _run at position pc with loop index i of n.
RetrievalDriver_run_step(pc, i, n) ==
    IF pc \in {"loaded", "running"}
    THEN IF i < n THEN "predict" ELSE "finalize"
    ELSE IF pc = "finalized" THEN "mkdir"
    ELSE IF pc = "dir" THEN "write"
    ELSE "none"

\* The last statements of run: what is written to the output file, and
\* what run returns: the value write_retrieval_results returned, or
\* self.output_file.
RetrievalDriver_write(output_format, adapter, results) ==
    IF output_format = GPROF_BINARY
    THEN [writer  |-> "write_retrieval_results", vars |-> results,
          returns |-> "write_retrieval_results"]
    ELSE [writer  |-> "to_netcdf",
          vars    |-> results \cup
                      (IF HasData(adapter) THEN Passthrough ELSE {}),
          returns |-> "output_file"]


\* ----------------------------------------------------------- SpecDriver
\* One RetrievalDriver: construction, then run step by step.  The outcome
\* of every call into a collaborator (the preprocessor, the adapter's
\* constructor, the model, finalize) is chosen by the environment.
DrvInit ==
    /\ d_suffix \in InputSuffixes
    /\ d_output_arg \in {"None", "dir", "file"}
    /\ d_formats = RetrievalDriver_init(d_suffix, d_output_arg)
    /\ d_adapter = << >>
    /\ d_len = 0
    /\ d_pc = "created"
    /\ d_tmp = "none"
    /\ d_status = -1
    /\ d_i = 0
    /\ d_calls = << >>
    /\ d_log = 0
    /\ d_file = << >>
    /\ d_return = NoValue
    /\ OnlyDrv

Call(name, i) == <<name, i>>

\* _load_input_data for GPROF_BINARY and NETCDF input: the adapter is
\* constructed, or its constructor raises.
DrvLoadDirect ==
    /\ d_pc = "created"
    /\ d_formats.input_format # L1C
    /\ \/ /\ \E a \in (IF d_formats.input_format = GPROF_BINARY
                       THEN PreprocessorClasses ELSE NetcdfClasses) :
                /\ d_adapter' = a
                /\ d_len' \in AdapterLens(a)
          /\ d_pc' = "loaded"
          /\ d_calls' = Append(d_calls, Call("load", 0))
       \/ /\ d_pc' = "raised"
          /\ UNCHANGED <<d_adapter, d_len, d_calls>>
    /\ UNCHANGED <<d_suffix, d_output_arg, d_formats, d_tmp, d_status, d_i,
                   d_log, d_file, d_return, notDrv>>

\* _load_input_data for L1C input: _, file = tempfile.mkstemp()
DrvMkstemp ==
    /\ d_pc = "created"
    /\ d_formats.input_format = L1C
    /\ d_tmp' = "exists"
    /\ d_pc' = "try"
    /\ UNCHANGED <<d_suffix, d_output_arg, d_formats, d_adapter, d_len,
                   d_status, d_i, d_calls, d_log, d_file, d_return, notDrv>>

\* run_preprocessor(input_file, sensor, output_file=file, robust=False)
DrvRunPreprocessor ==
    /\ d_pc = "try"
    /\ \E status \in {0, 1} :
          LET exc == run_preprocessor(status, FALSE)
          IN  /\ d_status' = status
              /\ d_pc' = IF exc = "" THEN "preprocessed"
                         ELSE IF load_input_data_except(exc) THEN "except"
                         ELSE "unwinding"
    /\ UNCHANGED <<d_suffix, d_output_arg, d_formats, d_adapter, d_len,
                   d_tmp, d_i, d_calls, d_log, d_file, d_return, notDrv>>

\* input_data = self.model.preprocessor_class(file, self.normalizer)
DrvConstruct ==
    /\ d_pc = "preprocessed"
    /\ \/ /\ \E a \in PreprocessorClasses :
                /\ d_adapter' = a
                /\ d_len' \in AdapterLens(a)
          /\ d_pc' = "finally_ok"
          /\ d_calls' = Append(d_calls, Call("load", 0))
       \/ /\ d_pc' = "unwinding"
          /\ UNCHANGED <<d_adapter, d_len, d_calls>>
    /\ UNCHANGED <<d_suffix, d_output_arg, d_formats, d_tmp, d_status, d_i,
                   d_log, d_file, d_return, notDrv>>

\* except subprocess.CalledProcessError: LOGGER.warning(...); return None
DrvExcept ==
    /\ d_pc = "except"
    /\ d_log' = d_log + 1
    /\ d_pc' = "finally_none"
    /\ UNCHANGED <<d_suffix, d_output_arg, d_formats, d_adapter, d_len,
                   d_tmp, d_status, d_i, d_calls, d_file, d_return, notDrv>>

\* finally: Path(file).unlink(); _load_input_data is left, and run returns
\* None if it returned None.
DrvFinally ==
    /\ d_pc \in {"finally_ok", "finally_none", "unwinding"}
    /\ d_tmp' = load_input_data_finally(d_pc)
    /\ d_pc' = CASE d_pc = "finally_ok" -> "loaded"
                 [] d_pc = "finally_none" -> "returned"
                 [] d_pc = "unwinding" -> "raised"
    /\ d_return' = IF d_pc = "finally_none" THEN "None" ELSE d_return
    /\ UNCHANGED <<d_suffix, d_output_arg, d_formats, d_adapter, d_len,
                   d_status, d_i, d_calls, d_log, d_file, notDrv>>

DrvStep == RetrievalDriver_run_step(d_pc, d_i, d_len)

\* One iteration of the loop of _run; the model or the adapter may raise.
DrvPredict ==
    /\ DrvStep = "predict"
    /\ d_calls' = Append(d_calls, Call("predict", d_i))
    /\ \/ d_pc' = "running" /\ d_i' = d_i + 1
       \/ d_pc' = "raised" /\ d_i' = d_i
    /\ UNCHANGED <<d_suffix, d_output_arg, d_formats, d_adapter, d_len,
                   d_tmp, d_status, d_log, d_file, d_return, notDrv>>

\* return input_data.finalize(data); finalize may raise.
DrvFinalize ==
    /\ DrvStep = "finalize"
    /\ d_calls' = Append(d_calls, Call("finalize", 0))
    /\ d_pc' \in {"finalized", "raised"}
    /\ UNCHANGED <<d_suffix, d_output_arg, d_formats, d_adapter, d_len,
                   d_tmp, d_status, d_i, d_log, d_file, d_return, notDrv>>

\* folder.mkdir(parents=True, exist_ok=True): the folder exists afterwards,
\* or, for an output file given with its own folder, mkdir raises (a
\* regular file is in the way: FileExistsError).  The folder of a file in
\* the working directory or in the directory given as output exists.
DrvMkdir ==
    /\ DrvStep = "mkdir"
    /\ d_calls' = Append(d_calls, Call("mkdir", 0))
    /\ \/ d_pc' = "dir"
       \/ d_output_arg = "file" /\ d_pc' = "raised"
    /\ UNCHANGED <<d_suffix, d_output_arg, d_formats, d_adapter, d_len,
                   d_tmp, d_status, d_i, d_log, d_file, d_return, notDrv>>

\* write_retrieval_results(...) or results.to_netcdf(self.output_file);
\* the writer may raise (OSError), and then run raises with nothing written.
DrvWrite ==
    /\ DrvStep = "write"
    /\ d_calls' = Append(d_calls, Call("write", 0))
    /\ LET w == RetrievalDriver_write(d_formats.output_format, d_adapter,
                                      FinalizeVars(d_adapter))
       IN  \/ /\ d_file' = [writer |-> w.writer, vars |-> w.vars]
              /\ d_pc' = "written"
              /\ d_return' = w.returns
           \/ /\ d_pc' = "raised"
              /\ UNCHANGED <<d_file, d_return>>
    /\ UNCHANGED <<d_suffix, d_output_arg, d_formats, d_adapter, d_len,
                   d_tmp, d_status, d_i, d_log, notDrv>>

DrvNext ==
    \/ DrvLoadDirect
    \/ DrvMkstemp
    \/ DrvRunPreprocessor
    \/ DrvConstruct
    \/ DrvExcept
    \/ DrvFinally
    \/ DrvPredict
    \/ DrvFinalize
    \/ DrvMkdir
    \/ DrvWrite

SpecDriver == DrvInit /\ [][DrvNext]_vars

CallNames == {d_calls[k][1] : k \in 1..Len(d_calls)}

\* C12: with L1C input and a preprocessor that exits with a non-zero
\* status, run does not raise; it logs the failure and returns None, having
\* neither loaded an adapter, run the model, called finalize, created a
\* directory nor written a file.
C12_PreprocessorFailureSkips ==
    (d_formats.input_format = L1C /\ d_status > 0) =>
        /\ d_pc \in {"except", "finally_none", "returned"}
        /\ d_calls = << >>
        /\ d_file = << >>
        /\ d_pc = "returned" => (d_return = "None" /\ d_log = 1)

\* C12 witness: the run of an .HDF5 file ended after the preprocessor failed.
C12_Witness ==
    /\ d_suffix = SuffixHDF5
    /\ d_status = 1
    /\ d_pc = "returned"
    /\ d_return = "None"

InLoadInputData ==
    d_pc \in {"created", "try", "preprocessed", "except", "finally_ok",
              "finally_none", "unwinding"}

\* C13: once _load_input_data has been left, on whichever path, a temporary
\* file it created does not exist.
C13_TempFileRemoved ==
    ~InLoadInputData => d_tmp # "exists"

\* C13 witness: _load_input_data was left by an exception other than the
\* preprocessor's failure, after the temporary file had been created.
C13_Witness ==
    /\ d_pc = "raised"
    /\ d_status = 0
    /\ d_tmp = "deleted"

IsPrefix(a, b) == Len(a) <= Len(b) /\ a = SubSeq(b, 1, Len(a))
\* The calls of a complete run over n batches.
ExpectedCalls(n) ==
    <<Call("load", 0)>> \o [k \in 1..n |-> Call("predict", k - 1)]
    \o <<Call("finalize", 0), Call("mkdir", 0), Call("write", 0)>>

\* C14: the calls of a run are, in this order, load, predict for the
\* batches 0..len-1 in increasing order, finalize, (mkdir,) write; an output
\* file exists only after the complete sequence, and never after a failure:
\* a run that raised or returned None has written nothing, and the writer
\* is called only after finalize (and mkdir) returned.
C14_StepOrder ==
    /\ d_adapter # << >> => IsPrefix(d_calls, ExpectedCalls(d_len))
    /\ d_adapter = << >> => d_calls = << >>
    /\ d_file # << >> => d_calls = ExpectedCalls(d_len)
    /\ d_pc = "written" => d_calls = ExpectedCalls(d_len)
    /\ d_pc \in {"raised", "returned"} => d_file = << >>
    /\ (d_pc = "raised" /\ "mkdir" \in CallNames) =>
          (d_output_arg = "file" \/ "write" \in CallNames)

\* C14 witness: a run over two batches wrote its output.
C14_Witness ==
    /\ d_pc = "written"
    /\ d_len = 2
    /\ d_file # << >>

\* C15: run writes through the adapter's write_retrieval_results exactly
\* when the output format is GPROF_BINARY; otherwise it writes the result
\* together with the six passthrough input fields with to_netcdf, for every
\* adapter; the parent directory was made before.
C15_OutputWriter ==
    d_pc = "written" =>
        /\ d_calls[Len(d_calls) - 1] = Call("mkdir", 0)
        /\ IF d_formats.output_format = GPROF_BINARY
           THEN d_file.writer = "write_retrieval_results"
           ELSE /\ d_file.writer = "to_netcdf"
                /\ FinalizeVars(d_adapter) \subseteq d_file.vars
                /\ Passthrough \subseteq d_file.vars


\* ---------------------------------- RetrievalGradientDriver (retrieval.py)
\* A gradient tensor is held as the set of the pairs <<batch, target>> whose
\* input sensitivities have been added into it.
PROFILE_NAMES == {"rain_water_content"}
GradTargets == {"surface_precip", "convective_precip", "rain_water_content"}

\* The body of "for k in y_pred" for target k of batch b:
\*     if k not in PROFILE_NAMES:
\*         xrnn.model.zero_grad()
\*         y_mean[k].backward(torch.ones_like(y_mean[k]), retain_graph=True)
\*         grads[k] = x.grad
\* zero_grad clears the .grad of the model's parameters; backward adds the
\* sensitivities of y_mean[k] into the .grad of the parameters and of x;
\* grads[k] is bound to the tensor x.grad, not to a copy of it.
RetrievalGradientDriver_backward(xgrad, pgrad, grads, b, k) ==
    IF k \notin PROFILE_NAMES
    THEN [xgrad |-> xgrad \cup {<<b, k>>},
          pgrad |-> {} \cup {<<b, k>>},
          grads |-> grads \cup {k}]
    ELSE [xgrad |-> xgrad, pgrad |-> pgrad, grads |-> grads]

\* The loop "for k, y in y_pred.items()" that follows, for batch b:
\* gradients.setdefault(k, []).append(grads[k].cpu()) for every k in grads,
\* where grads[k] is x.grad as it is now.
RECURSIVE RetrievalGradientDriver_append(_, _, _, _, _)
RetrievalGradientDriver_append(gradients, targets, grads, xgrad, b) ==
    IF targets = << >> THEN gradients
    ELSE LET k == Head(targets)
             g == IF k \in grads
                  THEN Append(gradients,
                              [target |-> k, batch |-> b, grad |-> xgrad])
                  ELSE gradients
         IN  RetrievalGradientDriver_append(g, Tail(targets), grads, xgrad, b)

\* ------------------------------------------------------------- SpecGrad
GradInit ==
    /\ q_targets \in
          {t \in UNION {[1..n -> GradTargets] : n \in 1..MaxGradTargets} :
              \A a, b \in 1..Len(t) : a # b => t[a] # t[b]}
    /\ q_len \in 0..MaxGradBatches
    /\ q_i = 0
    /\ q_j = 0
    /\ q_xgrad = {}
    /\ q_pgrad = {}
    /\ q_grads = {}
    /\ q_gradients = << >>
    /\ q_phase = "loop"
    /\ OnlyGrad

\* x = input_data[i]; x.requires_grad = True; y_pred = xrnn.predict(x);
\* y_mean = xrnn.posterior_mean(y_pred); grads = {}.  x is a new tensor
\* without a .grad.
GradGetItem ==
    /\ q_phase = "loop"
    /\ q_i < q_len
    /\ q_xgrad' = {}
    /\ q_grads' = {}
    /\ q_j' = 0
    /\ q_phase' = "targets"
    /\ UNCHANGED <<q_targets, q_len, q_i, q_pgrad, q_gradients, notGrad>>

\* One iteration of "for k in y_pred".
GradBackward ==
    /\ q_phase = "targets"
    /\ q_j < Len(q_targets)
    /\ LET r == RetrievalGradientDriver_backward(q_xgrad, q_pgrad, q_grads,
                                                 q_i, q_targets[q_j + 1])
       IN  /\ q_xgrad' = r.xgrad
           /\ q_pgrad' = r.pgrad
           /\ q_grads' = r.grads
    /\ q_j' = q_j + 1
    /\ UNCHANGED <<q_targets, q_len, q_i, q_gradients, q_phase, notGrad>>

\* The loop "for k, y in y_pred.items()" and the end of the batch.
GradAppend ==
    /\ q_phase = "targets"
    /\ q_j = Len(q_targets)
    /\ q_gradients' = RetrievalGradientDriver_append(q_gradients, q_targets,
                                                     q_grads, q_xgrad, q_i)
    /\ q_i' = q_i + 1
    /\ q_phase' = "loop"
    /\ UNCHANGED <<q_targets, q_len, q_j, q_xgrad, q_pgrad, q_grads, notGrad>>

\* After the loop: the Dataset is built and finalized.
GradFinalize ==
    /\ q_phase = "loop"
    /\ q_i = q_len
    /\ q_phase' = "finalized"
    /\ UNCHANGED <<q_targets, q_len, q_i, q_j, q_xgrad, q_pgrad, q_grads,
                   q_gradients, notGrad>>

GradNext ==
    \/ GradGetItem
    \/ GradBackward
    \/ GradAppend
    \/ GradFinalize

SpecGrad == GradInit /\ [][GradNext]_vars

\* C16: the gradient stored for non-profile target k and batch b is the
\* input sensitivity of target k on batch b alone: no contribution of any
\* other target or batch.
C16_GradientPerTarget ==
    \A e \in 1..Len(q_gradients) :
        q_gradients[e].grad = {<<q_gradients[e].batch, q_gradients[e].target>>}

\* Within C16, the part about batches: no stored gradient holds a
\* contribution of another batch.
GradNoCrossBatch ==
    \A e \in 1..Len(q_gradients) :
        \A c \in q_gradients[e].grad : c[1] = q_gradients[e].batch


\* ------------------------------------------------------------- SpecGeom
\* finalize on a result whose size need not be that of the batches the
\* loader produced: a 2D loader that crops, or a 0D loader that unstacks.
GeomInit == GridInit \/ LoaderInit

\* The model returns a prediction whose scan / pixel sizes differ from those
\* of the padded batch by up to MaxMismatch.
GeomPredict ==
    /\ g_phase = "batch"
    /\ \E ds, dp \in (0 - MaxMismatch)..MaxMismatch :
          g_out' = Scene(Len(g_x.scans) + ds, Len(g_x.pixels) + dp)
    /\ g_phase' = "predicted"
    /\ UNCHANGED <<g_loader, g_scans, g_pixels, g_padding, g_x, notGrid>>

\* _run ends with a result of n samples, handed to finalize of a 0D loader.
GeomFinalize0D ==
    /\ l_phase = "loaded"
    /\ LoaderLen.raised = ""
    /\ \E n \in 0..(Product(l_dims) + MaxMismatch) :
          /\ l_means' = [k \in 1..n |-> <<k - 1>>]
          /\ l_result' = Loader_finalize(l_class, l_means', l_kind, l_dims,
                                         l_invalid, l_retrieved)
    /\ l_phase' = "finalized"
    /\ UNCHANGED <<l_class, l_kind, l_dims, l_batch_size, l_invalid,
                   l_retrieved, l_i, l_batches, l_probe, notLd>>

GeomNext ==
    \/ GridGetItem
    \/ GeomPredict
    \/ GridFinalizeNetcdf
    \/ GridFinalizePreprocessor
    \/ GridFinalizeSimulator
    \/ GeomFinalize0D

SpecGeom == GeomInit /\ [][GeomNext]_vars

\* The result handed to a cropping finalize has not the size of the batch.
Mismatch2D ==
    /\ g_phase = "predicted"
    /\ \/ Len(g_out.scans) # Len(g_x.scans)
       \/ Len(g_out.pixels) # Len(g_x.pixels)
\* The loader unstacks its result.
Unstacks == l_class = "PreprocessorLoader0D" \/ l_kind = "standard"

\* C17: finalize does not return when the geometry of its argument does not
\* fit: a crop of a result that has not the padded size of the batch, and
\* an unstack of a result whose sample count is not a multiple of the
\* scans x pixels of the input file, raise.
C17_MismatchRaises ==
    [][/\ Mismatch2D => g_phase' # "finalized"
       /\ (/\ l_phase = "loaded" /\ l_phase' = "finalized" /\ Unstacks
           /\ Len(l_means') % (l_dims[Len(l_dims) - 1] * l_dims[Len(l_dims)])
                  # 0)
              => l_result'.error # ""]_vars

\* Within C17, the part about unstacking.
GeomUnstackRaises ==
    [][(/\ l_phase = "loaded" /\ l_phase' = "finalized" /\ Unstacks
        /\ Len(l_means') # Product(l_dims))
          => l_result'.error # ""]_vars


\* C18 (SpecLoader): the kind of a NetcdfLoader0D is "standard" exactly when
\* its file has a "scans" dimension and "bin" otherwise, in every state the
\* loader goes through (after any __getitem__ and after finalize), and
\* finalize of a "bin" loader returns its argument: the same samples with
\* the same values, nothing unstacked and nothing masked.
C18_KindAndBinFinalize ==
    l_class = "NetcdfLoader0D" =>
        /\ l_kind = "standard" <=> Len(l_dims) = 3
        /\ l_kind = "bin" <=> Len(l_dims) # 3
        /\ (l_kind = "bin" /\ l_phase = "finalized") =>
              /\ l_result.error = ""
              /\ l_result.dims = <<l_dims[1]>>
              /\ l_result.vals = l_means
              /\ l_result.vals = Flatten(l_dims)

\* C18 witness: a "bin" file of 10 samples, one of them with all channels
\* invalid, went through batches of 4 and finalize, and kept its 10 values.
C18_Witness ==
    /\ l_class = "NetcdfLoader0D"
    /\ l_kind = "bin"
    /\ l_dims = <<10>>
    /\ l_batch_size = 4
    /\ l_invalid = {<<3>>}
    /\ l_phase = "finalized"
    /\ Len(l_result.vals) = 10


\* ---------------------------------------- GPROF0DDataset (training_data.py)
\* np.random.permutation(n): any order of the indices.
IndexOrders(n) ==
    {p \in [1..n -> 1..n] : \A a, b \in 1..n : a # b => p[a] # p[b]}

\* GPROF0DDataset._shuffle: the orders of the samples it may leave behind
\* (x and y are reordered with the same indices); it sets _shuffled.
GPROF0DDataset_shuffle(x, shuffled) ==
    IF ~shuffled
    THEN {[k \in 1..Len(x) |-> x[p[k]]] : p \in IndexOrders(Len(x))}
    ELSE {x}

\* GPROF0DDataset.__len__ for a batch_size >= 1.
GPROF0DDataset_len(n, batch_size) == n \div batch_size

\* GPROF0DDataset.__getitem__: the samples of batch i, once i has been found
\* to be smaller than len(self).
GPROF0DDataset_getitem(x, batch_size, i) ==
    LET i_start == batch_size * i
        i_end   == batch_size * (i + 1)
    IN  PySlice(x, i_start, i_end)

\* --------------------------------------------------------------- SpecDs
\* A GPROF0DDataset after construction, iterated from batch 0 until
\* IndexError, pass after pass.
DsInit ==
    /\ ds_n \in 0..MaxDsSamples
    /\ ds_batch_size \in 1..MaxDsBatch
    /\ ds_shuffle \in BOOLEAN
    /\ ds_x \in (IF ds_shuffle
                 THEN GPROF0DDataset_shuffle(Arange(ds_n), FALSE)
                 ELSE {Arange(ds_n)})
    /\ ds_shuffled = ds_shuffle
    /\ ds_i = 0
    /\ ds_batches = << >>
    /\ ds_epoch = 1
    /\ ds_phase = "iterating"
    /\ OnlyDs

\* dataset[ds_i] with ds_i < len(dataset)
DsGetItem ==
    /\ ds_phase = "iterating"
    /\ ds_i < GPROF0DDataset_len(ds_n, ds_batch_size)
    /\ ds_x' \in (IF ds_i = 0
                  THEN GPROF0DDataset_shuffle(ds_x, ds_shuffled)
                  ELSE {ds_x})
    /\ ds_shuffled' = FALSE
    /\ ds_batches' = Append(ds_batches,
                            GPROF0DDataset_getitem(ds_x', ds_batch_size, ds_i))
    /\ ds_i' = ds_i + 1
    /\ UNCHANGED <<ds_n, ds_batch_size, ds_shuffle, ds_epoch, ds_phase, notDs>>

\* dataset[ds_i] with ds_i >= len(dataset): IndexError ends the iteration.
DsIndexError ==
    /\ ds_phase = "iterating"
    /\ ds_i >= GPROF0DDataset_len(ds_n, ds_batch_size)
    /\ ds_phase' = "done"
    /\ UNCHANGED <<ds_n, ds_batch_size, ds_shuffle, ds_shuffled, ds_x, ds_i,
                   ds_batches, ds_epoch, notDs>>

\* The next pass over the dataset starts.
DsNextEpoch ==
    /\ ds_phase = "done"
    /\ ds_epoch < MaxEpochs
    /\ ds_epoch' = ds_epoch + 1
    /\ ds_i' = 0
    /\ ds_batches' = << >>
    /\ ds_phase' = "iterating"
    /\ UNCHANGED <<ds_n, ds_batch_size, ds_shuffle, ds_shuffled, ds_x, notDs>>

DsNext ==
    \/ DsGetItem
    \/ DsIndexError
    \/ DsNextEpoch

SpecDs == DsInit /\ [][DsNext]_vars

RECURSIVE Concat(_)
Concat(seqs) == IF seqs = << >> THEN << >> ELSE Head(seqs) \o Concat(Tail(seqs))

\* C19: a pass from batch 0 until IndexError delivers every sample of the
\* dataset exactly once, for every sample count and batch_size >= 1.
C19_EverySampleOnce ==
    ds_phase = "done" =>
        LET delivered == Concat(ds_batches)
        IN  /\ Len(delivered) = ds_n
            /\ Range(delivered) = 0..(ds_n - 1)

\* Within C19: no sample is delivered twice in a pass.
DsNoDuplicate ==
    LET delivered == Concat(ds_batches)
    IN  \A a, b \in 1..Len(delivered) : a # b => delivered[a] # delivered[b]

\* C20: with shuffle=False the samples stay in file order, after
\* construction and after every __getitem__ of every pass: batch i holds the
\* samples [i*batch_size, (i+1)*batch_size) of the file.
C20_OrderKept ==
    ~ds_shuffle =>
        /\ ds_x = Arange(ds_n)
        /\ \A k \in 1..Len(ds_batches) :
              ds_batches[k] = PySlice(Arange(ds_n), (k - 1) * ds_batch_size,
                                      k * ds_batch_size)


\* C21 (SpecEnc): _load_data followed by save stores, for every sample, the
\* surface_type code that was read, for every code 1..18, and the
\* airmass_type code that was read.
C21_SaveRoundTrip ==
    (e_phase = "saved" /\ e_in.st \in 1..N_SURFACE_TYPES) =>
        /\ e_saved.surface_type = <<e_in.st>>
        /\ e_saved.airmass_type = <<e_in.am>>

\* Within C21: what save stores is the one-hot slot, one less than the
\* surface code read.
SaveStoresSlot ==
    (e_phase = "saved" /\ e_in.st \in 1..N_SURFACE_TYPES) =>
        e_saved.surface_type = <<e_in.st - 1>>


\* ---------------------------------------------------- gprof_nn.legacy
\* Modes are tuples of characters, as the suffixes are.
ModeSTANDARD    == <<"S", "T", "A", "N", "D", "A", "R", "D">>
ModeStandard    == <<"S", "t", "a", "n", "d", "a", "r", "d">>
ModeSENSITIVITY == <<"S", "E", "N", "S", "I", "T", "I", "V", "I", "T", "Y">>
ModeSensitivity == <<"s", "e", "n", "s", "i", "t", "i", "v", "i", "t", "y">>
ModePROFILES    == <<"P", "R", "O", "F", "I", "L", "E", "S">>
ModeProfiles    == <<"P", "r", "o", "f", "i", "l", "e", "s">>
ModeGRADIENTS   == <<"G", "R", "A", "D", "I", "E", "N", "T", "S">>
LegacyModes == {ModeSTANDARD, ModeStandard, ModeSENSITIVITY, ModeSensitivity,
                ModePROFILES, ModeProfiles, ModeGRADIENTS}

\* str.upper
UpperChar(c) ==
    CASE c = "a" -> "A" [] c = "d" -> "D" [] c = "e" -> "E"
      [] c = "f" -> "F" [] c = "i" -> "I" [] c = "l" -> "L"
      [] c = "n" -> "N" [] c = "o" -> "O" [] c = "p" -> "P"
      [] c = "r" -> "R" [] c = "s" -> "S" [] c = "t" -> "T"
      [] c = "v" -> "V" [] c = "y" -> "Y"
      [] OTHER -> c
Upper(str) == [k \in 1..Len(str) |-> UpperChar(str[k])]

\* The executables registered for conical and for cross-track sensors.
EXECUTABLES ==
    (ModeSTANDARD :> "GPROF_2021_V1") @@
    (ModeSENSITIVITY :> "GPROF_2020_V1_grads") @@
    (ModePROFILES :> "GPROF_2021_V1_profs")
EXECUTABLES_X ==
    (ModeSTANDARD :> "GPROF_2020_V1x") @@
    (ModePROFILES :> "GPROF_2020_V1x_profiles")

LegacySensors == {"ConicalScanner", "CrossTrackScanner", "Sensor"}
ExitStatuses == {0, 1}

\* What a call of execute_gprof leaves behind.
LegacyOutcome(raised, files, started, logged, result) ==
    [raised |-> raised, files |-> files, started |-> started,
     logged |-> logged, result |-> result]

\* execute_gprof(working_directory, sensor, configuration, input_file, mode,
\* profiles, nedts, robust) with the channel sensitivities given; exit is
\* the exit status of the executable and haslog tells whether it has
\* written its log file when it fails.
execute_gprof(sensor, mode, robust, exit, haslog) ==
    LET executables == IF sensor = "ConicalScanner" THEN EXECUTABLES
                       ELSE EXECUTABLES_X
        sensitivity == {"channel_sensitivities.txt"}
    IN  IF sensor \notin {"ConicalScanner", "CrossTrackScanner"}
        THEN LegacyOutcome("ValueError", {}, << >>, 0, NoValue)
        ELSE IF Upper(mode) \notin DOMAIN executables
        THEN LegacyOutcome("ValueError", {}, << >>, 0, NoValue)
        ELSE IF mode \notin DOMAIN executables
        THEN LegacyOutcome("KeyError", {}, << >>, 0, NoValue)
        ELSE LET executable == executables[mode] IN
            IF exit = 0
            THEN LegacyOutcome("", sensitivity \cup {"output.bin"},
                               <<executable>>, 0, "dataset")
            ELSE IF ~robust
            THEN LegacyOutcome("CalledProcessError",
                               sensitivity \cup
                                   (IF haslog THEN {"log"} ELSE {}),
                               <<executable>>, 0, NoValue)
            ELSE IF ~haslog
            THEN LegacyOutcome("FileNotFoundError", sensitivity,
                               <<executable>>, 0, NoValue)
            ELSE LegacyOutcome("", sensitivity \cup {"log"},
                               <<executable>>, 1, "None")

\* ------------------------------------------------------------ SpecLegacy
LegacyInit ==
    /\ lg_fn \in {"execute_gprof", "run_gprof_standard",
                  "run_gprof_training_data"}
    /\ lg_sensor \in LegacySensors
    /\ lg_mode \in LegacyModes
    /\ lg_haslog \in BOOLEAN
    /\ lg_robust \in IF lg_fn = "execute_gprof" THEN BOOLEAN ELSE {TRUE}
    /\ lg_suffix \in IF lg_fn = "run_gprof_standard"
                     THEN {SuffixPP, SuffixHDF5} ELSE {SuffixPP}
    /\ lg_pp_status \in IF lg_suffix = SuffixHDF5 THEN ExitStatuses ELSE {-1}
    /\ lg_exits \in UNION {[1..n -> ExitStatuses] :
            n \in IF lg_fn = "run_gprof_training_data"
                  THEN 0..MaxLegacyBatches ELSE {1}}
    /\ lg_i = 0 /\ lg_results = << >> /\ lg_files = {} /\ lg_started = << >>
    /\ lg_logged = 0 /\ lg_raised = "" /\ lg_return = NoValue
    /\ lg_pc = "start"
    /\ OnlyLg

\* A direct call of execute_gprof.
LegacyExecute ==
    /\ lg_pc = "start" /\ lg_fn = "execute_gprof"
    /\ LET r == execute_gprof(lg_sensor, lg_mode, lg_robust, lg_exits[1],
                              lg_haslog)
       IN  /\ lg_files' = r.files
           /\ lg_started' = r.started
           /\ lg_logged' = r.logged
           /\ lg_raised' = r.raised
           /\ lg_return' = r.result
    /\ lg_i' = 1
    /\ lg_pc' = "done"
    /\ UNCHANGED <<lg_fn, lg_sensor, lg_mode, lg_robust, lg_suffix,
                   lg_pp_status, lg_exits, lg_haslog, lg_results, notLg>>

\* run_gprof_standard: the preprocessor for an L1C file, then execute_gprof.
LegacyStandard ==
    /\ lg_pc = "start" /\ lg_fn = "run_gprof_standard"
    /\ LET pp == IF lg_suffix = SuffixHDF5
                 THEN run_preprocessor(lg_pp_status, FALSE) ELSE ""
           r  == execute_gprof(lg_sensor, lg_mode, TRUE, lg_exits[1],
                               lg_haslog)
       IN  IF pp # ""
           THEN /\ lg_raised' = pp
                /\ UNCHANGED <<lg_files, lg_started, lg_logged, lg_return,
                               lg_i>>
           ELSE /\ lg_files' = r.files \cup
                        (IF lg_suffix = SuffixHDF5 THEN {"input.pp"} ELSE {})
                /\ lg_started' = r.started
                /\ lg_logged' = r.logged
                /\ lg_raised' = r.raised
                /\ lg_return' = r.result
                /\ lg_i' = 1
    /\ lg_pc' = "done"
    /\ UNCHANGED <<lg_fn, lg_sensor, lg_mode, lg_robust, lg_suffix,
                   lg_pp_status, lg_exits, lg_haslog, lg_results, notLg>>

\* run_gprof_training_data: one pass of "for batch in input_data".
LegacyBatch ==
    /\ lg_pc = "start" /\ lg_fn = "run_gprof_training_data"
    /\ lg_i < Len(lg_exits)
    /\ LET r == execute_gprof(lg_sensor, lg_mode, TRUE, lg_exits[lg_i + 1],
                              lg_haslog)
       IN  /\ lg_files' = lg_files \cup {"input.pp"} \cup r.files
           /\ lg_started' = lg_started \o r.started
           /\ lg_logged' = lg_logged + r.logged
           /\ lg_raised' = r.raised
           /\ lg_i' = lg_i + 1
           /\ IF r.raised # ""
              THEN lg_pc' = "done" /\ UNCHANGED lg_results
              ELSE IF r.result = "None"
              THEN lg_pc' = "start" /\ UNCHANGED lg_results
              ELSE lg_results' = Append(lg_results, lg_i) /\ lg_pc' = "start"
    /\ UNCHANGED <<lg_fn, lg_sensor, lg_mode, lg_robust, lg_suffix,
                   lg_pp_status, lg_exits, lg_haslog, lg_return, notLg>>

\* run_gprof_training_data: the end of the loop and the return statement.
LegacyReturn ==
    /\ lg_fn = "run_gprof_training_data"
    /\ lg_pc = "start" /\ lg_i = Len(lg_exits)
    /\ lg_return' = IF lg_results = << >> THEN "None" ELSE "dataset"
    /\ lg_pc' = "done"
    /\ UNCHANGED <<lg_fn, lg_sensor, lg_mode, lg_robust, lg_suffix,
                   lg_pp_status, lg_exits, lg_haslog, lg_i, lg_results,
                   lg_files, lg_started, lg_logged, lg_raised, notLg>>

LegacyNext ==
    \/ LegacyExecute
    \/ LegacyStandard
    \/ LegacyBatch
    \/ LegacyReturn

SpecLegacy == LegacyInit /\ [][LegacyNext]_vars

\* C22 (SpecLegacy): in run_gprof_training_data and run_gprof_standard a
\* non-zero exit status of the GPROF executable or of the preprocessor never
\* leaves the function as an exception; the failing batch is skipped, the
\* other batches are processed and kept, and None is returned only when no
\* batch succeeded.
C22_FailureNeverPropagates ==
    (lg_fn \in {"run_gprof_standard", "run_gprof_training_data"}
        /\ lg_pc = "done") =>
        /\ lg_raised \notin {"CalledProcessError", "FileNotFoundError"}
        /\ (lg_raised = "" /\ lg_fn = "run_gprof_training_data") =>
            /\ lg_results = SelectSeq(Arange(Len(lg_exits)),
                                      LAMBDA b : lg_exits[b + 1] = 0)
            /\ lg_return = "None" <=> lg_results = << >>

\* Within C22: when the failing executable has written its log,
\* run_gprof_training_data keeps exactly the batches whose run exited with
\* 0 and starts the executable once for every batch.
LegacyTrainingSkips ==
    (lg_fn = "run_gprof_training_data" /\ lg_pc = "done" /\ lg_haslog
        /\ lg_raised = "") =>
        /\ lg_results = SelectSeq(Arange(Len(lg_exits)),
                                  LAMBDA b : lg_exits[b + 1] = 0)
        /\ Len(lg_started) = Len(lg_exits)
        /\ lg_return = "None" <=> lg_results = << >>

\* C27 (SpecLegacy): execute_gprof accepts every mode whose upper-case form
\* is registered for the sensor's class, the default 'Standard' included,
\* and starts the executable registered for it; every other mode and every
\* other sensor is rejected with ValueError before a file is written or a
\* process started.
C27_ModeAccepted ==
    (lg_fn = "execute_gprof" /\ lg_pc = "done") =>
        LET executables ==
                IF lg_sensor = "ConicalScanner" THEN EXECUTABLES
                ELSE IF lg_sensor = "CrossTrackScanner" THEN EXECUTABLES_X
                ELSE << >>
        IN  IF Upper(lg_mode) \in DOMAIN executables
            THEN /\ lg_raised \notin {"ValueError", "KeyError"}
                 /\ lg_started = <<executables[Upper(lg_mode)]>>
            ELSE /\ lg_raised = "ValueError"
                 /\ lg_files = {}
                 /\ lg_started = << >>

\* Within C27: a mode that is not accepted, and a sensor of another class,
\* is rejected with ValueError before any file is written.
LegacyRejects ==
    (lg_fn = "execute_gprof" /\ lg_pc = "done"
        /\ \/ lg_sensor = "Sensor"
           \/ Upper(lg_mode) \notin DOMAIN EXECUTABLES
           \/ (lg_sensor = "CrossTrackScanner"
                /\ Upper(lg_mode) \notin DOMAIN EXECUTABLES_X)) =>
        lg_raised = "ValueError" /\ lg_files = {} /\ lg_started = << >>


\* C23 (SpecLoader): for every preprocessor file and every batch_size >= 1,
\* PreprocessorLoader0D has ceil(n_scans / scans_per_batch) batches with
\* scans_per_batch = batch_size // n_pixels; batch i holds all pixels of
\* the scans [i * scans_per_batch, min((i + 1) * scans_per_batch, n_scans)),
\* so the batches are whole scan lines, disjoint, and cover [0, n_scans).
C23_WholeScanBatches ==
    l_class = "PreprocessorLoader0D" =>
        LET n_scans  == l_dims[1]
            n_pixels == l_dims[2]
            spb      == l_batch_size \div n_pixels
        IN  /\ l_phase # "failed"
            /\ l_phase # "loaded" => LoaderLen.value = Ceil(n_scans, spb)
            /\ \A k \in 1..Len(l_batches) :
                  l_batches[k] =
                      [j \in 1..((Min(k * spb, n_scans) - (k - 1) * spb)
                                  * n_pixels) |->
                          <<(k - 1) * spb + ((j - 1) \div n_pixels),
                            (j - 1) % n_pixels>>]
            /\ (l_phase # "loaded" /\ l_i = LoaderLen.value) =>
                    l_means = Flatten(l_dims)

\* Within C23: the same, for the batch sizes that hold at least one scan
\* line.
WholeScanBatchesFromOneLine ==
    (l_class = "PreprocessorLoader0D" /\ l_batch_size >= l_dims[2]) =>
        LET n_scans  == l_dims[1]
            n_pixels == l_dims[2]
            spb      == l_batch_size \div n_pixels
        IN  /\ LoaderLen.raised = ""
            /\ LoaderLen.value = Ceil(n_scans, spb)
            /\ \A k \in 1..Len(l_batches) :
                  l_batches[k] =
                      [j \in 1..((Min(k * spb, n_scans) - (k - 1) * spb)
                                  * n_pixels) |->
                          <<(k - 1) * spb + ((j - 1) \div n_pixels),
                            (j - 1) % n_pixels>>]
            /\ l_i = LoaderLen.value => l_means = Flatten(l_dims)


\* ------------------------------------------------------------ adapters
AdapterClasses == {"PreprocessorLoader0D", "PreprocessorLoader2D",
                   "NetcdfLoader2D", "SimulatorLoader"}
SensorClasses == {"ConicalScanner", "CrossTrackScanner"}

\* Default batch_size of NetcdfLoader2D.__init__ and SimulatorLoader.__init__.
NetcdfLoader2D_batch_size == 8
SimulatorLoader_batch_size == 8

\* sensor.n_inputs: the width of a feature vector.
Sensor_n_inputs(sensor, n_chans) ==
    n_chans + (IF sensor = "CrossTrackScanner" THEN 1 ELSE 0) + 2
        + N_SURFACE_TYPES + N_AIRMASS_TYPES

\* One assignment "x[:, offset] = ..." of slot number slot of a field.
FieldWrite(field, slot, offset) ==
    [field |-> field, slot |-> slot, offset |-> offset]

\* Mutation used to test C24: the incidence angle does not move i_anc.
PreprocessorLoader0D_layout_noshift(sensor, n_chans, n_inputs) ==
    LET i_anc == n_chans
        writes ==
            [k \in 1..n_chans |-> FieldWrite("channel", k - 1, k - 1)]
            \o (IF sensor = "CrossTrackScanner"
                THEN <<FieldWrite("earth_incidence_angle", 0, n_chans)>>
                ELSE << >>)
            \o <<FieldWrite("two_meter_temperature", 0, i_anc),
                 FieldWrite("total_column_water_vapor", 0, i_anc + 1)>>
            \o [j \in 1..18 |->
                    FieldWrite("surface_type", j - 1, i_anc + 2 + j - 1)]
            \o [j \in 1..4 |->
                    FieldWrite("airmass_type", j - 1, i_anc + 2 + 18 + j - 1)]
    IN  IF \E k \in 1..Len(writes) : writes[k].offset >= n_inputs
        THEN [raised |-> "IndexError", writes |-> << >>]
        ELSE [raised |-> "", writes |-> writes]

\* PreprocessorLoader0D.__getitem__: the columns of x it assigns, in the
\* order of the assignments.  x has n_inputs columns; an assignment past
\* the last column raises IndexError.
PreprocessorLoader0D_layout(sensor, n_chans, n_inputs) ==
    LET i_anc == IF sensor = "CrossTrackScanner" THEN n_chans + 1
                 ELSE n_chans
        writes ==
            [k \in 1..n_chans |-> FieldWrite("channel", k - 1, k - 1)]
            \o (IF sensor = "CrossTrackScanner"
                THEN <<FieldWrite("earth_incidence_angle", 0, n_chans)>>
                ELSE << >>)
            \o <<FieldWrite("two_meter_temperature", 0, i_anc),
                 FieldWrite("total_column_water_vapor", 0, i_anc + 1)>>
            \o [j \in 1..18 |->
                    FieldWrite("surface_type", j - 1, i_anc + 2 + j - 1)]
            \o [j \in 1..4 |->
                    FieldWrite("airmass_type", j - 1, i_anc + 2 + 18 + j - 1)]
    IN  IF \E k \in 1..Len(writes) : writes[k].offset >= n_inputs
        THEN [raised |-> "IndexError", writes |-> << >>]
        ELSE [raised |-> "", writes |-> writes]

\* How often __init__ (with _load_data) applies self.normalizer to the data
\* it stores in self.input_data.
Adapter_init_normalized(cls) ==
    CASE cls = "PreprocessorLoader2D" -> 1
      [] cls = "SimulatorLoader" -> 1
      [] cls = "NetcdfLoader2D" -> 0
      [] cls = "PreprocessorLoader0D" -> 0

\* How often the normalizer has been applied to the batch __getitem__
\* returns, stored being the count for self.input_data.
Adapter_getitem_normalized(cls, stored) ==
    IF cls = "PreprocessorLoader0D" THEN stored + 1 ELSE stored

\* Mutation used to test C26: every grid adapter has one batch.
Adapter2D_len_single(cls, n_samples, batch_size) == 1

\* __len__ of the adapters for 2D input.
Adapter2D_len(cls, n_samples, batch_size) ==
    IF cls = "PreprocessorLoader2D" THEN 1
    ELSE NetcdfLoader_len(n_samples, batch_size).value

\* ----------------------------------------------------------- SpecAdapter
AdapterInit ==
    /\ a_class \in AdapterClasses
    /\ a_sensor \in SensorClasses
    /\ a_n_chans \in 1..MaxChans
    /\ a_samples \in IF a_class \in {"NetcdfLoader2D", "SimulatorLoader"}
                     THEN 0..MaxAdSamples ELSE {1}
    /\ a_batch_size \in
          CASE a_class = "NetcdfLoader2D" ->
                    {NetcdfLoader2D_batch_size} \cup 1..MaxAdBatch
            [] a_class = "SimulatorLoader" ->
                    {SimulatorLoader_batch_size} \cup 1..MaxAdBatch
            [] OTHER -> {0}
    /\ a_norm = 0
    /\ a_len = -1
    /\ a_x = << >>
    /\ a_phase = "new"
    /\ OnlyAd

\* __init__ of the adapter.
AdapterConstruct ==
    /\ a_phase = "new"
    /\ a_norm' = Adapter_init_normalized(a_class)
    /\ a_phase' = "loaded"
    /\ UNCHANGED <<a_class, a_sensor, a_n_chans, a_samples, a_batch_size,
                   a_len, a_x, notAd>>

\* len(adapter) of an adapter for 2D input.
AdapterLen ==
    /\ a_phase = "loaded"
    /\ a_class # "PreprocessorLoader0D"
    /\ a_len = -1
    /\ a_len' = Adapter2D_len(a_class, a_samples, a_batch_size)
    /\ UNCHANGED <<a_class, a_sensor, a_n_chans, a_samples, a_batch_size,
                   a_norm, a_x, a_phase, notAd>>

\* adapter[0]
AdapterGetItem ==
    /\ a_phase = "loaded"
    /\ a_x' = [normalized |-> Adapter_getitem_normalized(a_class, a_norm),
               layout |->
                   IF a_class = "PreprocessorLoader0D"
                   THEN PreprocessorLoader0D_layout(a_sensor, a_n_chans,
                            Sensor_n_inputs(a_sensor, a_n_chans))
                   ELSE [raised |-> "", writes |-> << >>]]
    /\ a_phase' = "batch"
    /\ UNCHANGED <<a_class, a_sensor, a_n_chans, a_samples, a_batch_size,
                   a_norm, a_len, notAd>>

AdapterNext ==
    \/ AdapterConstruct
    \/ AdapterLen
    \/ AdapterGetItem

SpecAdapter == AdapterInit /\ [][AdapterNext]_vars

\* The offset PreprocessorLoader0D.__getitem__ assigns slot number slot of
\* a field to; -1 if it assigns none.
WrittenAt(field, slot) ==
    LET ws == a_x.layout.writes
        ks == {k \in 1..Len(ws) : ws[k].field = field /\ ws[k].slot = slot}
    IN  IF ks = {} THEN -1 ELSE ws[CHOOSE k \in ks : TRUE].offset

\* C24 (SpecAdapter): PreprocessorLoader0D.__getitem__ lays the features
\* out as channels, [earth incidence angle at n_chans for a cross-track
\* sensor only], two_meter_temperature, total_column_water_vapor, 18
\* surface slots and 4 airmass slots, the fields after the channels
\* starting at n_chans for a conical sensor and one higher for a
\* cross-track sensor; no offset is assigned by two fields and the last
\* airmass slot is at n_inputs - 1.
C24_FeatureOffsets ==
    (a_class = "PreprocessorLoader0D" /\ a_phase = "batch") =>
        LET ws   == a_x.layout.writes
            base == IF a_sensor = "CrossTrackScanner" THEN a_n_chans + 1
                    ELSE a_n_chans
        IN  /\ a_x.layout.raised = ""
            /\ \A i, j \in 1..Len(ws) : i # j => ws[i].offset # ws[j].offset
            /\ \A k \in 0..(a_n_chans - 1) : WrittenAt("channel", k) = k
            /\ WrittenAt("earth_incidence_angle", 0) =
                    IF a_sensor = "CrossTrackScanner" THEN a_n_chans ELSE -1
            /\ WrittenAt("two_meter_temperature", 0) = base
            /\ WrittenAt("total_column_water_vapor", 0) = base + 1
            /\ \A j \in 0..17 : WrittenAt("surface_type", j) = base + 2 + j
            /\ \A j \in 0..3 : WrittenAt("airmass_type", j) = base + 20 + j
            /\ WrittenAt("airmass_type", 3) =
                    Sensor_n_inputs(a_sensor, a_n_chans) - 1
            /\ {ws[k].offset : k \in 1..Len(ws)} =
                    0..(Sensor_n_inputs(a_sensor, a_n_chans) - 1)

\* A batch of a cross-track file has been laid out.
C24_Witness ==
    /\ a_class = "PreprocessorLoader0D" /\ a_phase = "batch"
    /\ a_sensor = "CrossTrackScanner"
    /\ a_n_chans > 1
    /\ WrittenAt("earth_incidence_angle", 0) = a_n_chans

\* C25 (SpecAdapter): every adapter applies its normalizer exactly once to
\* the features of a batch before __getitem__ returns it.
C25_NormalizedOnce ==
    a_phase = "batch" => a_x.normalized = 1

\* Within C25: the adapters other than NetcdfLoader2D normalize exactly
\* once.
NormalizedOnceButNetcdf2D ==
    (a_phase = "batch" /\ a_class # "NetcdfLoader2D") => a_x.normalized = 1

\* C26 as stated (SpecAdapter): with the default batch size a grid adapter
\* has exactly one batch, whatever the number of scenes of the file.
C26_SingleBatch ==
    (a_len # -1 /\ a_class \in {"NetcdfLoader2D", "PreprocessorLoader2D"}
        /\ (a_class = "NetcdfLoader2D" =>
                a_batch_size = NetcdfLoader2D_batch_size)) =>
        a_len = 1

\* C26 (SpecAdapter), amended: PreprocessorLoader2D has exactly one batch;
\* NetcdfLoader2D with its default batch size has one batch for 1..8
\* scenes, none for an empty file and one batch per 8 scenes begun
\* otherwise.
C26_SingleBatchUpToEight ==
    (a_len # -1) =>
        /\ a_class = "PreprocessorLoader2D" => a_len = 1
        /\ (a_class = "NetcdfLoader2D"
                /\ a_batch_size = NetcdfLoader2D_batch_size) =>
            /\ a_samples \in 1..8 => a_len = 1
            /\ a_samples = 0 => a_len = 0
            /\ a_samples > 8 =>
                    /\ a_len >= 2
                    /\ 8 * (a_len - 1) < a_samples
                    /\ a_samples <= 8 * a_len

\* A NetcdfLoader2D with default batch size on a file of 9 scenes has
\* answered len().
C26_Witness ==
    /\ a_class = "NetcdfLoader2D"
    /\ a_batch_size = NetcdfLoader2D_batch_size
    /\ a_samples = 9
    /\ a_len = 2


\* ------------------------------------------------- crop and pad pairs
\* The pair (before, after) torch.nn.functional.pad(x, padding) pads each
\* axis with: padding[0:2] belongs to the last dimension (pixels),
\* padding[2:4] to the second-to-last (scans).
pad_pairs(padding) ==
    [scans  |-> <<padding[3], padding[4]>>,
     pixels |-> <<padding[1], padding[2]>>]

\* The pair (start, -stop) of self.padding that finalize slices each axis
\* with.
finalize_pairs(loader, padding) ==
    IF loader = "PreprocessorLoader2D"
    THEN [scans  |-> <<padding[3], padding[4]>>,
          pixels |-> <<padding[1], padding[2]>>]
    ELSE [scans  |-> <<padding[1], padding[2]>>,
          pixels |-> <<padding[3], padding[4]>>]

\* finalize crops the prediction with the pairs of finalize_pairs.
FinalizeUsesPairs ==
    g_phase = "finalized" =>
        LET c == finalize_pairs(g_loader, g_padding)
        IN  /\ g_out.scans = PySlice(g_x.scans, c.scans[1], 0 - c.scans[2])
            /\ g_out.pixels =
                    PySlice(g_x.pixels, c.pixels[1], 0 - c.pixels[2])

\* SimulatorLoader.finalize raises exactly when the crop with its pairs has
\* not the size of the scene.
SimulatorRaisesOnPairs ==
    g_loader = "SimulatorLoader" =>
        LET c == finalize_pairs(g_loader, g_padding)
            fits ==
                /\ Len(PySlice(g_x.scans, c.scans[1], 0 - c.scans[2]))
                        = g_scans
                /\ Len(PySlice(g_x.pixels, c.pixels[1], 0 - c.pixels[2]))
                        = g_pixels
        IN  /\ g_phase = "finalized" => fits
            /\ g_phase = "raised" => ~fits

\* C28 (SpecGrid): in every 2D adapter finalize crops the scans axis with
\* the pair __getitem__ padded the scans axis with, and the pixels axis
\* with the pair it padded the pixels axis with, for scenes whose scan and
\* pixel counts differ.
C28_CropPairIsPadPair ==
    (g_phase \in {"finalized", "raised"} /\ g_scans # g_pixels) =>
        finalize_pairs(g_loader, g_padding) = pad_pairs(g_padding)

\* Within C28: PreprocessorLoader2D crops each axis with its own pair.
PreprocessorCropPairIsPadPair ==
    (g_phase = "finalized" /\ g_loader = "PreprocessorLoader2D") =>
        finalize_pairs(g_loader, g_padding) = pad_pairs(g_padding)


\* ------------------------------------- RetrievalDriver: the output file
\* str.replace(old, new): every non-overlapping occurrence of old, from the
\* left; an empty old matches before every character and at the end.
RECURSIVE Replace(_, _, _)
Replace(str, old, new) ==
    IF old = << >>
    THEN IF str = << >> THEN new
         ELSE new \o <<Head(str)>> \o Replace(Tail(str), old, new)
    ELSE IF Len(str) < Len(old) THEN str
    ELSE IF SubSeq(str, 1, Len(old)) = old
    THEN new \o Replace(SubSeq(str, Len(old) + 1, Len(str)), old, new)
    ELSE <<Head(str)>> \o Replace(Tail(str), old, new)

\* pathlib's Path(name).suffix: from the last dot on, unless that dot is the
\* first or the last character of the name.
PathSuffix(name) ==
    LET dots == {k \in 1..Len(name) : name[k] = "."}
        last == IF dots = {} THEN 0
                ELSE CHOOSE k \in dots : \A j \in dots : j <= k
    IN  IF last > 1 /\ last < Len(name)
        THEN SubSeq(name, last, Len(name)) ELSE << >>

\* RetrievalDriver.__init__, "Determine output filename": the name of
\* self.output_file.
RetrievalDriver_output_file(name, output_suffix, output_arg, output_name) ==
    IF output_arg = "file" THEN output_name
    ELSE Replace(name, PathSuffix(name), output_suffix)

\* Names of input files and of output files.
InputNames ==
    {stem \o suffix :
        stem \in {<<"f">>, <<"f", ".", "p", "p">>},
        suffix \in InputSuffixes \cup {<< >>}}
OutputNames ==
    {<<"o">> \o suffix : suffix \in {SuffixBin, SuffixBIN, SuffixNC, SuffixPP}}

\* -------------------------------------------------------------- SpecOut
OutInit ==
    /\ o_name \in InputNames
    /\ o_output_arg \in {"None", "dir", "file"}
    /\ o_output_name \in IF o_output_arg = "file" THEN OutputNames
                         ELSE {<< >>}
    /\ o_formats = << >>
    /\ o_file = << >>
    /\ o_writer = NoValue
    /\ o_phase = "new"
    /\ OnlyOut

\* RetrievalDriver.__init__
OutConstruct ==
    /\ o_phase = "new"
    /\ LET f == RetrievalDriver_init(PathSuffix(o_name), o_output_arg)
       IN  /\ o_formats' = f
           /\ o_file' = RetrievalDriver_output_file(o_name, f.output_suffix,
                            o_output_arg, o_output_name)
    /\ o_phase' = "constructed"
    /\ UNCHANGED <<o_name, o_output_arg, o_output_name, o_writer, notOut>>

\* RetrievalDriver.run on input that loads: the results are written.
OutRun ==
    /\ o_phase = "constructed"
    /\ o_writer' = RetrievalDriver_write(o_formats.output_format, << >>,
                                         {}).writer
    /\ o_phase' = "written"
    /\ UNCHANGED <<o_name, o_output_arg, o_output_name, o_formats, o_file,
                   notOut>>

OutNext ==
    \/ OutConstruct
    \/ OutRun

SpecOut == OutInit /\ [][OutNext]_vars

\* C29 (SpecOut): for every kind of input file and every output_file
\* argument the output format is GPROF_BINARY or NETCDF, and the suffix of
\* a derived output name is '.BIN' exactly when run writes through
\* write_retrieval_results and '.nc' exactly when it serializes NetCDF.
C29_SuffixMatchesWriter ==
    o_phase = "written" =>
        /\ o_formats.output_format \in {GPROF_BINARY, NETCDF}
        /\ o_output_arg \in {"None", "dir"} =>
            /\ PathSuffix(o_file) = SuffixBIN
                    <=> o_writer = "write_retrieval_results"
            /\ PathSuffix(o_file) = SuffixNC <=> o_writer = "to_netcdf"

\* Within C29: the same, whenever the output format is not taken over from
\* an L1C input.
SuffixMatchesWriterButL1C ==
    (o_phase = "written" /\ o_formats.output_format # L1C) =>
        /\ o_formats.output_format \in {GPROF_BINARY, NETCDF}
        /\ o_output_arg \in {"None", "dir"} =>
            /\ PathSuffix(o_file) = SuffixBIN
                    <=> o_writer = "write_retrieval_results"
            /\ PathSuffix(o_file) = SuffixNC <=> o_writer = "to_netcdf"

\* C30 (SpecOut): for a preprocessor (.pp) input with an explicit output
\* file the output format is GPROF_BINARY exactly when the suffix of the
\* OUTPUT file ends in 'bin' (case-insensitively) and NETCDF otherwise.
C30_OutputNameDecides ==
    (o_phase # "new" /\ o_output_arg = "file"
        /\ EndsWith(PathSuffix(o_name), <<"p", "p">>)) =>
        o_formats.output_format =
            IF EndsWith(Lower(PathSuffix(o_output_name)), <<"b", "i", "n">>)
            THEN GPROF_BINARY ELSE NETCDF

\* Within C30: for a .pp input with an explicit output file or directory
\* the output format is NETCDF, whatever the name of the output file.
PreprocessorOutputAlwaysNetcdf ==
    (o_phase # "new" /\ o_output_arg # "None"
        /\ EndsWith(PathSuffix(o_name), <<"p", "p">>)) =>
        o_formats.output_format = NETCDF

=============================================================================
